---- MODULE Spec2Model ----
(***************************************************************************)
(* A model of the content index of obsidian-mcp:                           *)
(*   - PersistentSearchIndex (utils/persistent_index.py): the SQLite store *)
(*     with the relations file_index, file_search and file_properties,     *)
(*     driven through one shared connection and one asyncio writer lock;   *)
(*   - ObsidianVault (utils/filesystem.py): the refresh cycle and the      *)
(*     search entry points that trigger it.                                *)
(*                                                                         *)
(* StoreSpec runs the store operations one SQL statement at a time (every  *)
(* "await self.db.execute" is a point where another coroutine may run).    *)
(* Spec runs the vault: callers of search_notes / search_by_regex, the     *)
(* markdown files on disk, and the refresh cycle file by file.             *)
(***************************************************************************)
EXTENDS Integers, Sequences, FiniteSets, Bags, TLC

\* ---------------------------------------------------------------- bounds
MaxSize == 3
NumWriters == 2
MaxCalls == 3
MaxEvents == 3
MaxNow == 61
MaxDocs == 52
MaxTagLen == 5
MaxTermLen == 3
MaxQueryValue == 13
MaxQueryLen == 5
MaxLineText == 6
MaxContent == 10
MaxLiteral == 4
ChunkSize == 4
Overlap == 2
MaxDocText == 4
MaxPattern == 4
MaxLimit == 2
MaxParallel == 2
MaxListLen == 2
SizeCeiling == 1

Paths == {"a.md", "b.md"}
Mtimes == {1, 2}
Sizes == 1..MaxSize
Writers == 1..NumWriters
Callers == {1, 2}

\* ------------------------------------------------------- text and content
\* str.lower() on one character of the model's alphabet {"A", "a", "b"}.
LowerChar(ch) == IF ch = "A" THEN "a" ELSE IF ch = "B" THEN "b" ELSE ch

\* str.lower() on a text.
LowerText(s) == [i \in 1..Len(s) |-> LowerChar(s[i])]

\* Python's "sub in s" / SQL's "s LIKE %sub%" on texts.
Contains(s, sub) ==
    \E i \in 0..(Len(s) - Len(sub)) : SubSeq(s, i + 1, i + Len(sub)) = sub

\* A property name that SQLite cannot store: YAML's "null: z" loads as the key
\* None, and file_properties.property_name is NOT NULL.
NullKey == "<None>"

\* A markdown document: the front-matter block (closed "---" fence or none,
\* carried as the ordered key/value pairs yaml.safe_load yields) and the text.
DocProps == [has_fm |-> TRUE, fm |-> << <<"status", "x">> >>, text |-> <<"A", "b">>]
DocEmptyFm == [has_fm |-> TRUE, fm |-> << >>, text |-> <<"a">>]
DocPlain == [has_fm |-> FALSE, fm |-> << >>, text |-> <<"b">>]
DocNullKey ==
    [has_fm |-> TRUE, fm |-> << <<"status", "y">>, <<NullKey, "z">> >>, text |-> <<"A">>]
Contents == {DocProps, DocEmptyFm, DocPlain, DocNullKey}

\* st_size of the file that holds the document.
ByteSize(c) == Len(c.text) + Len(c.fm)

\* content.lower()
LowerContent(c) == [c EXCEPT !.text = LowerText(c.text)]

\* ObsidianVault._extract_file_metadata: the dict always carries "tags"; it
\* carries "frontmatter" only when the content opens with a closed block.
\* (yaml.safe_load(...) or {} makes an empty block the empty dict.)
ExtractFileMetadata(c) ==
    IF c.has_fm THEN [has_frontmatter |-> TRUE, frontmatter |-> c.fm]
    ELSE [has_frontmatter |-> FALSE, frontmatter |-> << >>]

\* PersistentSearchIndex._determine_property_type on the model's values
\* (strings that are not ISO dates).
DeterminePropertyType(value) == "text"

\* ------------------------------------------------------------- the store
\* One row of file_index as index_file builds it.
FileIndexRow(a) ==
    [filepath |-> a.filepath, content |-> a.content,
     content_lower |-> LowerContent(a.content),
     mtime |-> a.mtime, size |-> a.size, metadata |-> a.metadata]

\* One row of the FTS mirror file_search.
FileSearchRow(a) ==
    [filepath |-> a.filepath, content |-> a.content,
     content_lower |-> LowerContent(a.content)]

\* One row of file_properties.
FilePropertyRow(filepath, name, value) ==
    [filepath |-> filepath, property_name |-> name, property_value |-> value,
     property_type |-> DeterminePropertyType(value)]

\* The rows of a table (a bag of rows) that belong to one filepath.
RowsOf(table, p) == {r \in BagToSet(table) : r.filepath = p}
CountOf(table, p) ==
    LET rs == RowsOf(table, p)
        Sum[S \in SUBSET rs] ==
            IF S = {} THEN 0
            ELSE LET r == CHOOSE x \in S : TRUE
                 IN CopiesIn(r, table) + Sum[S \ {r}]
    IN Sum[rs]
WithoutPath(table, p) ==
    LET keep == {r \in BagToSet(table) : r.filepath # p}
    IN [r \in keep |-> table[r]]

EmptyDb == [file_index |-> EmptyBag, file_search |-> EmptyBag, file_properties |-> {}]

\* A plain INSERT in a table without the primary key: the old row stays.
InsertFileIndexKeepOld(d, a) ==
    [d EXCEPT !.file_index = @ (+) SetToBag({FileIndexRow(a)})]

\* INSERT OR REPLACE INTO file_index: filepath is the primary key, so the row
\* it conflicts with is deleted first.  (PRAGMA foreign_keys is never switched
\* on, so the ON DELETE CASCADE of file_properties does not act.)
InsertOrReplaceFileIndex(d, a) ==
    [d EXCEPT !.file_index = WithoutPath(@, a.filepath) (+) SetToBag({FileIndexRow(a)})]

\* DELETE FROM file_index WHERE filepath = ?
DeleteFileIndex(d, p) == [d EXCEPT !.file_index = WithoutPath(@, p)]

\* The FTS mirror is not cleaned.
DeleteFileSearchSkipped(d, p) == d

\* DELETE FROM file_search WHERE filepath = ?
DeleteFileSearch(d, p) == [d EXCEPT !.file_search = WithoutPath(@, p)]

\* INSERT INTO file_search: the FTS table has no key, the row is added.
InsertFileSearch(d, a) ==
    [d EXCEPT !.file_search = @ (+) SetToBag({FileSearchRow(a)})]

\* DELETE FROM file_properties WHERE filepath = ?
DeleteFileProperties(d, p) ==
    [d EXCEPT !.file_properties = {r \in @ : r.filepath # p}]

\* INSERT INTO file_properties raises IntegrityError for a NULL name and for a
\* (filepath, property_name) that is already there.
InsertPropertyFails(d, p, name) ==
    \/ name = NullKey
    \/ \E r \in d.file_properties : r.filepath = p /\ r.property_name = name

InsertFileProperty(d, p, name, value) ==
    [d EXCEPT !.file_properties = @ \cup {FilePropertyRow(p, name, value)}]

\* index_file's test "metadata and 'frontmatter' in metadata".
UpdatesProperties(metadata) == metadata.has_frontmatter

\* What a reader's SELECT can see of one path: the rows of the three tables.
View(d, p) ==
    [file_index |-> RowsOf(d.file_index, p),
     file_search |-> RowsOf(d.file_search, p),
     n_search |-> CountOf(d.file_search, p),
     file_properties |-> {r \in d.file_properties : r.filepath = p}]

IndexedFiles(d) == {r.filepath : r \in BagToSet(d.file_index)}

\* get_file_info: the stored (mtime, size) rows of a path, none when absent.
GetFileInfo(d, p) == RowsOf(d.file_index, p)

\* needs_update that looks at the mtime only.
NeedsUpdateMtimeOnly(d, p, current_mtime, current_size) ==
    \A r \in GetFileInfo(d, p) : r.mtime # current_mtime

\* needs_update: no stored snapshot, or mtime or size differs.
NeedsUpdate(d, p, current_mtime, current_size) ==
    LET file_info == GetFileInfo(d, p)
    IN IF file_info = {} THEN TRUE
       ELSE LET row == CHOOSE r \in file_info : TRUE
            IN IF row.mtime # current_mtime \/ row.size # current_size THEN TRUE
               ELSE FALSE

\* index_file's property loop from the first pending pair on: rows are inserted
\* in dict order until one insert raises.
RECURSIVE InsertProperties(_, _, _)
InsertProperties(d, p, todo) ==
    IF todo = << >> THEN [db |-> d, ok |-> TRUE]
    ELSE IF InsertPropertyFails(d, p, Head(todo)[1]) THEN [db |-> d, ok |-> FALSE]
    ELSE InsertProperties(InsertFileProperty(d, p, Head(todo)[1], Head(todo)[2]),
                          p, Tail(todo))

\* index_file run to its end on the connection state d: the statements in
\* program order; ok is FALSE when a property insert raised (then there was
\* no commit).
IndexFile(d, a) ==
    LET d1 == InsertOrReplaceFileIndex(d, a)
        d2 == DeleteFileSearch(d1, a.filepath)
        d3 == InsertFileSearch(d2, a)
    IN IF UpdatesProperties(a.metadata)
       THEN InsertProperties(DeleteFileProperties(d3, a.filepath), a.filepath,
                             a.metadata.frontmatter)
       ELSE [db |-> d3, ok |-> TRUE]

\* remove_file run to its end.
RemoveFile(d, p) == DeleteFileSearch(DeleteFileIndex(d, p), p)

\* A sweep that finds no orphan.
OrphanedNone(d, existing_files) == {}

\* clear_orphaned_entries' diff: indexed_files - existing_files.
Orphaned(d, existing_files) == IndexedFiles(d) \ existing_files

VARIABLES
    db,          \* what the shared connection sees (uncommitted work included)
    committed,   \* what the last commit() made durable
    lock,        \* PersistentSearchIndex._lock: 0 when free, else its holder
    wpc,         \* per writer coroutine: where it is
    warg,        \* per writer coroutine: the call it is in
    seen,        \* what the reader that ran in the last step selected
    calls,       \* store operations called so far
    disk,        \* the markdown files of the vault
    now,         \* time.time()
    store_writable,            \* whether SQLite can still write the database
    store_failed,              \* history: an open or a write of the store failed
    use_persistent_index,      \* ObsidianVault.use_persistent_index
    persistent_index,          \* ObsidianVault.persistent_index is not None
    persistent_index_initialized, \* ObsidianVault._persistent_index_initialized
    search_index,              \* ObsidianVault._search_index
    index_timestamp,           \* ObsidianVault._index_timestamp
    index_lock,                \* ObsidianVault._index_lock: 0 or its holder
    cpc,         \* per caller of the vault: where it is
    carg,        \* per caller of the vault: the search it is in
    searches,    \* searches called so far
    fs_changes,  \* changes made to the vault's files so far
    tool         \* the last call of a search tool or helper, with its result

storeVars == <<db, committed, lock>>
taskVars == <<wpc, warg, seen, calls>>
vaultVars ==
    <<disk, now, store_writable, store_failed, use_persistent_index,
      persistent_index, persistent_index_initialized, search_index,
      index_timestamp, index_lock, cpc, carg, searches, fs_changes>>
toolVars == <<tool>>
vars == <<storeVars, taskVars, vaultVars, toolVars>>

\* The arguments index_file is called with: the caller passes the metadata it
\* extracted from the content.
IndexArgs ==
    {[filepath |-> p, content |-> c, mtime |-> m, size |-> ByteSize(c),
      metadata |-> ExtractFileMetadata(c)] :
        p \in Paths, c \in Contents, m \in Mtimes}

NoArgs ==
    [filepath |-> "", content |-> DocPlain, mtime |-> 0, size |-> 0,
     metadata |-> ExtractFileMetadata(DocPlain)]
NoCall ==
    [op |-> "none", args |-> NoArgs, todo |-> << >>, nested |-> FALSE,
     orphaned |-> {}, pre |-> EmptyDb]
NoSeen ==
    [op |-> "none", filepath |-> "", view |-> View(EmptyDb, ""), during |-> "none",
     pre |-> View(EmptyDb, ""), post |-> View(EmptyDb, ""),
     mtime |-> 0, size |-> 0, answer |-> FALSE]

\* ------------------------------------------------------------- the vault
\* The staleness threshold of search_notes and search_by_regex, in seconds.
RefreshInterval == 60

\* The default max_results of the search entry points.
MaxResults == 50

\* The seconds that pass between two looks at the clock.
TickSteps == {61}

\* _index_timestamp = None
NoTimestamp == -1

\* A file of the vault: absent, or its st_mtime, its document and whether its
\* bytes decode as UTF-8.
NoFile == [exists |-> FALSE, mtime |-> 0, doc |-> DocPlain, decodable |-> TRUE]
FileOf(mtime, doc, decodable) ==
    [exists |-> TRUE, mtime |-> mtime, doc |-> doc, decodable |-> decodable]

\* What gets written into a file: a plain document, one whose front matter
\* has a null key, and bytes that do not decode.
FileBodies ==
    {[doc |-> c, decodable |-> TRUE] : c \in {DocPlain, DocNullKey}}
        \cup {[doc |-> DocPlain, decodable |-> FALSE]}

\* The queries of the callers: a text for search_notes, a literal pattern for
\* search_by_regex (flags = 0).
Queries == {<<"A">>}
SearchOps == {"search_notes", "search_by_regex"}

\* One entry of the in-memory index.
MemoryEntry(p, content, mtime, size) ==
    [filepath |-> p, content |-> LowerContent(content),
     original_content |-> content, mtime |-> mtime, size |-> size]

\* A caller that is in no search.
NoSearch ==
    [op |-> "none", query |-> << >>, stale |-> FALSE, during |-> FALSE,
     snap |-> {}, mode |-> "none", walked |-> {}, todo |-> {},
     existing_files |-> {}, failed |-> {}, ingested |-> {}, late |-> {},
     unchanged |-> {}, cycle_done |-> FALSE, at_end |-> {}, result |-> {},
     opened |-> FALSE]

\* The vault of a store that is driven directly: its persistent index is
\* open, nobody searches.
VaultAtRest ==
    /\ disk = [p \in Paths |-> NoFile]
    /\ now = 0
    /\ store_writable = TRUE
    /\ store_failed = FALSE
    /\ use_persistent_index = TRUE
    /\ persistent_index = TRUE
    /\ persistent_index_initialized = TRUE
    /\ search_index = {}
    /\ index_timestamp = NoTimestamp
    /\ index_lock = 0
    /\ cpc = [c \in Callers |-> "idle"]
    /\ carg = [c \in Callers |-> NoSearch]
    /\ searches = 0
    /\ fs_changes = 0

\* The writer coroutines of a store that is driven by the vault only.
TasksAtRest ==
    /\ wpc = [t \in Writers |-> "idle"]
    /\ warg = [t \in Writers |-> NoCall]
    /\ seen = NoSeen
    /\ calls = 0

\* No tool has been called.
NoTool == [op |-> "none"]

\* A tool is called when the one before has returned.
ToolIdle == tool.op = "none"

StoreInit ==
    /\ tool = NoTool
    /\ db = EmptyDb
    /\ committed = EmptyDb
    /\ lock = 0
    /\ TasksAtRest
    /\ VaultAtRest

\* A lock that lets everybody in.
LockIgnored == TRUE

\* "async with self._lock" is entered without a suspension when the lock is
\* free, so taking the lock and issuing the first statement are one step.
LockFree == lock = 0

\* index_file: lock, INSERT OR REPLACE INTO file_index.
IndexFileBegin(t, a) ==
    /\ UNCHANGED <<vaultVars, toolVars>>
    /\ wpc[t] = "idle"
    /\ calls < MaxCalls
    /\ calls' = calls + 1
    /\ LockFree
    /\ lock' = t
    /\ db' = InsertOrReplaceFileIndex(db, a)
    /\ wpc' = [wpc EXCEPT ![t] = "if_delete_search"]
    /\ warg' = [warg EXCEPT ![t] = [NoCall EXCEPT !.op = "index_file", !.args = a,
                                                  !.pre = db]]
    /\ seen' = NoSeen
    /\ UNCHANGED committed

\* index_file: DELETE FROM file_search.
IndexFileDeleteSearch(t) ==
    /\ UNCHANGED <<vaultVars, toolVars>>
    /\ UNCHANGED calls
    /\ wpc[t] = "if_delete_search"
    /\ db' = DeleteFileSearch(db, warg[t].args.filepath)
    /\ wpc' = [wpc EXCEPT ![t] = "if_insert_search"]
    /\ seen' = NoSeen
    /\ UNCHANGED <<committed, lock, warg>>

\* index_file: INSERT INTO file_search, then the front-matter test.
IndexFileInsertSearch(t) ==
    /\ UNCHANGED <<vaultVars, toolVars>>
    /\ UNCHANGED calls
    /\ wpc[t] = "if_insert_search"
    /\ db' = InsertFileSearch(db, warg[t].args)
    /\ wpc' = [wpc EXCEPT ![t] =
                 IF UpdatesProperties(warg[t].args.metadata)
                 THEN "if_delete_props" ELSE "if_commit"]
    /\ seen' = NoSeen
    /\ UNCHANGED <<committed, lock, warg>>

\* index_file: DELETE FROM file_properties, then the loop over the pairs.
IndexFileDeleteProps(t) ==
    /\ UNCHANGED <<vaultVars, toolVars>>
    /\ UNCHANGED calls
    /\ wpc[t] = "if_delete_props"
    /\ db' = DeleteFileProperties(db, warg[t].args.filepath)
    /\ warg' = [warg EXCEPT ![t].todo = warg[t].args.metadata.frontmatter]
    /\ wpc' = [wpc EXCEPT ![t] =
                 IF warg[t].args.metadata.frontmatter = << >>
                 THEN "if_commit" ELSE "if_insert_props"]
    /\ seen' = NoSeen
    /\ UNCHANGED <<committed, lock>>

\* index_file: one INSERT INTO file_properties.  An IntegrityError leaves the
\* "async with" (the lock is released) with no commit and no rollback: the
\* statements already run stay pending on the connection.
IndexFileInsertProp(t) ==
    /\ UNCHANGED <<vaultVars, toolVars>>
    /\ UNCHANGED calls
    /\ wpc[t] = "if_insert_props"
    /\ LET p == warg[t].args.filepath
           name == Head(warg[t].todo)[1]
           value == Head(warg[t].todo)[2]
       IN IF InsertPropertyFails(db, p, name)
          THEN /\ lock' = 0
               /\ wpc' = [wpc EXCEPT ![t] = "idle"]
               /\ warg' = [warg EXCEPT ![t] = NoCall]
               /\ UNCHANGED db
          ELSE /\ db' = InsertFileProperty(db, p, name, value)
               /\ warg' = [warg EXCEPT ![t].todo = Tail(warg[t].todo)]
               /\ wpc' = [wpc EXCEPT ![t] =
                            IF Tail(warg[t].todo) = << >>
                            THEN "if_commit" ELSE "if_insert_props"]
               /\ UNCHANGED lock
    /\ seen' = NoSeen
    /\ UNCHANGED committed

\* index_file: commit, leave the lock.
IndexFileCommit(t) ==
    /\ UNCHANGED <<vaultVars, toolVars>>
    /\ UNCHANGED calls
    /\ wpc[t] = "if_commit"
    /\ committed' = db
    /\ lock' = 0
    /\ wpc' = [wpc EXCEPT ![t] = "idle"]
    /\ warg' = [warg EXCEPT ![t] = NoCall]
    /\ seen' = NoSeen
    /\ UNCHANGED db

\* A caller awaits remove_file(p).
RemoveFileCall(t, p) ==
    /\ UNCHANGED <<vaultVars, toolVars>>
    /\ wpc[t] = "idle"
    /\ calls < MaxCalls
    /\ calls' = calls + 1
    /\ wpc' = [wpc EXCEPT ![t] = "rf_wait"]
    /\ warg' = [warg EXCEPT ![t] = [NoCall EXCEPT !.op = "remove_file",
                                                  !.args.filepath = p]]
    /\ seen' = NoSeen
    /\ UNCHANGED <<db, committed, lock>>

\* remove_file: lock (asyncio.Lock is not reentrant: a holder that asks again
\* waits like anyone else), DELETE FROM file_index.
RemoveFileBegin(t) ==
    /\ UNCHANGED <<vaultVars, toolVars>>
    /\ UNCHANGED calls
    /\ wpc[t] = "rf_wait"
    /\ LockFree
    /\ lock' = t
    /\ db' = DeleteFileIndex(db, warg[t].args.filepath)
    /\ wpc' = [wpc EXCEPT ![t] = "rf_delete_search"]
    /\ warg' = [warg EXCEPT ![t].pre = db]
    /\ seen' = NoSeen
    /\ UNCHANGED committed

\* remove_file: DELETE FROM file_search.
RemoveFileDeleteSearch(t) ==
    /\ UNCHANGED <<vaultVars, toolVars>>
    /\ UNCHANGED calls
    /\ wpc[t] = "rf_delete_search"
    /\ db' = DeleteFileSearch(db, warg[t].args.filepath)
    /\ wpc' = [wpc EXCEPT ![t] = "rf_commit"]
    /\ seen' = NoSeen
    /\ UNCHANGED <<committed, lock, warg>>

\* remove_file: commit, leave the lock; a call made by clear_orphaned_entries
\* returns into its loop over the orphans.
RemoveFileCommit(t) ==
    /\ UNCHANGED <<vaultVars, toolVars>>
    /\ UNCHANGED calls
    /\ wpc[t] = "rf_commit"
    /\ committed' = db
    /\ lock' = 0
    /\ LET rest == warg[t].orphaned \ {warg[t].args.filepath}
       IN IF warg[t].nested /\ rest # {}
          THEN \E q \in rest :
                 /\ wpc' = [wpc EXCEPT ![t] = "rf_wait"]
                 /\ warg' = [warg EXCEPT ![t].args.filepath = q,
                                         ![t].orphaned = rest]
          ELSE /\ wpc' = [wpc EXCEPT ![t] = "idle"]
               /\ warg' = [warg EXCEPT ![t] = NoCall]
    /\ seen' = NoSeen
    /\ UNCHANGED db

\* clear_orphaned_entries(existing_files): lock, SELECT filepath FROM
\* file_index, the diff, and for the first orphan "await self.remove_file",
\* made while this coroutine still holds the lock.
ClearOrphanedEntries(t, existing_files) ==
    /\ UNCHANGED <<vaultVars, toolVars>>
    /\ wpc[t] = "idle"
    /\ calls < MaxCalls
    /\ calls' = calls + 1
    /\ LockFree
    /\ LET orphaned == Orphaned(db, existing_files)
       IN IF orphaned = {}
          THEN UNCHANGED <<lock, wpc, warg>>
          ELSE \E q \in orphaned :
                 /\ lock' = t
                 /\ wpc' = [wpc EXCEPT ![t] = "rf_wait"]
                 /\ warg' = [warg EXCEPT ![t] =
                               [NoCall EXCEPT !.op = "clear_orphaned_entries",
                                              !.args.filepath = q,
                                              !.nested = TRUE,
                                              !.orphaned = orphaned]]
    /\ seen' = NoSeen
    /\ UNCHANGED <<db, committed>>

\* The writer that holds the lock in the middle of a mutation of path p.
Mutating(p) ==
    {t \in Writers : /\ lock = t
                     /\ warg[t].op \in {"index_file", "remove_file"}
                     /\ wpc[t] # "rf_wait"
                     /\ warg[t].args.filepath = p}

\* What the mutation writer t is in leaves behind when it has run to its end.
PostOf(t) ==
    IF warg[t].op = "index_file" THEN IndexFile(warg[t].pre, warg[t].args).db
    ELSE RemoveFile(warg[t].pre, warg[t].args.filepath)

\* A reader (search_simple, search_regex, search_by_property, get_all_files)
\* runs its SELECT on the shared connection without taking the lock: it sees
\* the statements already executed there, committed or not.
ReaderSelect(p) ==
    /\ UNCHANGED <<vaultVars, toolVars>>
    /\ UNCHANGED calls
    /\ seen' = IF Mutating(p) = {}
               THEN [NoSeen EXCEPT !.op = "select", !.filepath = p,
                                   !.view = View(db, p),
                                   !.pre = View(db, p), !.post = View(db, p)]
               ELSE LET t == CHOOSE w \in Mutating(p) : TRUE
                    IN [NoSeen EXCEPT !.op = "select", !.filepath = p,
                                      !.view = View(db, p),
                                      !.during = warg[t].op,
                                      !.pre = View(warg[t].pre, p),
                                      !.post = View(PostOf(t), p)]
    /\ seen' # seen
    /\ UNCHANGED <<db, committed, lock, wpc, warg>>

\* needs_update(filepath, current_mtime, current_size): get_file_info takes
\* the writer lock for its SELECT, then the comparison.
NeedsUpdateCall(p, current_mtime, current_size) ==
    /\ UNCHANGED <<vaultVars, toolVars>>
    /\ LockFree
    /\ seen' = [NoSeen EXCEPT !.op = "needs_update", !.filepath = p,
                              !.view = View(db, p),
                              !.mtime = current_mtime, !.size = current_size,
                              !.answer = NeedsUpdate(db, p, current_mtime,
                                                     current_size)]
    /\ seen' # seen
    /\ UNCHANGED <<db, committed, lock, wpc, warg, calls>>

StoreNext ==
    \/ \E t \in Writers, a \in IndexArgs : IndexFileBegin(t, a)
    \/ \E t \in Writers : IndexFileDeleteSearch(t)
    \/ \E t \in Writers : IndexFileInsertSearch(t)
    \/ \E t \in Writers : IndexFileDeleteProps(t)
    \/ \E t \in Writers : IndexFileInsertProp(t)
    \/ \E t \in Writers : IndexFileCommit(t)
    \/ \E t \in Writers, p \in Paths : RemoveFileCall(t, p)
    \/ \E t \in Writers : RemoveFileBegin(t)
    \/ \E t \in Writers : RemoveFileDeleteSearch(t)
    \/ \E t \in Writers : RemoveFileCommit(t)
    \/ \E t \in Writers, existing_files \in SUBSET Paths :
          ClearOrphanedEntries(t, existing_files)
    \/ \E p \in Paths : ReaderSelect(p)
    \/ \E p \in Paths, m \in Mtimes, s \in Sizes : NeedsUpdateCall(p, m, s)

StoreSpec == StoreInit /\ [][StoreNext]_vars

\* ------------------------------------------------------ claims on the store

\* C2: needs_update answers false exactly when the store holds a snapshot of
\* the path whose mtime and whose size both equal the ones asked about; it
\* answers true when there is no snapshot and when either one differs.
C2_StalenessCorrect ==
    seen.op = "needs_update" =>
        (seen.answer = FALSE) <=>
            (\E r \in seen.view.file_index :
                r.mtime = seen.mtime /\ r.size = seen.size)

\* needs_update was asked about a stored path with the stored mtime and
\* another size, and said true.
C2_Witness ==
    /\ seen.op = "needs_update"
    /\ seen.answer = TRUE
    /\ \E r \in seen.view.file_index :
          r.mtime = seen.mtime /\ r.size # seen.size

\* The properties index_file writes for a front-matter, as rows.
PropertyRows(p, metadata) ==
    IF metadata.has_frontmatter
    THEN {FilePropertyRow(p, metadata.frontmatter[i][1], metadata.frontmatter[i][2]) :
            i \in 1..Len(metadata.frontmatter)}
    ELSE {}

\* Writer t has run every statement of an index_file and is at its commit.
AtIndexCommit(t) == wpc[t] = "if_commit"

\* The index_file writer t is in repeats the call that wrote the path last:
\* the row it found is the row its own arguments make.
RepeatsLastCall(t) ==
    FileIndexRow(warg[t].args) \in RowsOf(warg[t].pre.file_index, warg[t].args.filepath)

\* C3: a second index_file with the same (path, content, mtime, size,
\* metadata) leaves exactly one file_index row for the path and the
\* file_properties rows the first call left.
C3_IdempotentReingestion ==
    \A t \in Writers :
        AtIndexCommit(t) /\ RepeatsLastCall(t) =>
            /\ CountOf(db.file_index, warg[t].args.filepath) = 1
            /\ View(db, warg[t].args.filepath).file_properties =
                   View(warg[t].pre, warg[t].args.filepath).file_properties

\* A repeated index_file of a document that has properties is at its commit.
C3_Witness ==
    \E t \in Writers :
        /\ AtIndexCommit(t) /\ RepeatsLastCall(t)
        /\ View(db, warg[t].args.filepath).file_properties # {}

\* C4: in every committed state file_search holds exactly one row for each
\* filepath of file_index, none for any other filepath, and that row carries
\* the content of the file_index row.
C4_FullTextLockStep ==
    \A p \in Paths :
        /\ CountOf(committed.file_search, p) =
              (IF p \in IndexedFiles(committed) THEN 1 ELSE 0)
        /\ \A r \in RowsOf(committed.file_index, p) :
              RowsOf(committed.file_search, p) =
                 {[filepath |-> p, content |-> r.content,
                   content_lower |-> r.content_lower]}

\* A remove_file of a committed document has deleted both of its rows and is
\* at its commit, while another document stays indexed.
C4_Witness ==
    \E t \in Writers :
        /\ wpc[t] = "rf_commit"
        /\ warg[t].args.filepath \in IndexedFiles(committed)
        /\ View(db, warg[t].args.filepath).n_search = 0
        /\ IndexedFiles(db) # {}

\* C5 (as claimed): after a re-ingestion of an indexed path the
\* file_properties rows of the path are exactly the properties of the new
\* front-matter, whatever the shape of the new metadata.
C5_PropertiesRegenerated ==
    \A t \in Writers :
        (AtIndexCommit(t) /\
         RowsOf(warg[t].pre.file_index, warg[t].args.filepath) # {}) =>
            View(db, warg[t].args.filepath).file_properties =
                PropertyRows(warg[t].args.filepath, warg[t].args.metadata)

\* C8 (as claimed): a reader that selects while index_file or remove_file is
\* mutating a path sees the path as it was before the mutation or as it is
\* after it, never a state in between.
C8_ReaderSeesWholeMutation ==
    (seen.op = "select" /\ seen.during # "none") =>
        seen.view \in {seen.pre, seen.post}


\* ----------------------------------------------------- the vault's searches
\* A test that takes an index of exactly the interval's age for stale.
StaleAtInterval(ts, t) == ts = NoTimestamp \/ t - ts >= RefreshInterval

\* "self._index_timestamp is None or (time.time() - self._index_timestamp) > 60"
Stale(ts, t) == ts = NoTimestamp \/ t - ts > RefreshInterval

\* A search that goes on without the refresh.
SkipsUpdate(stale) == FALSE

\* "if <stale>: await self._update_search_index()"
AwaitsUpdate(stale) == stale

\* "self.use_persistent_index and self.persistent_index"
UsesPersistent(upi, pi) == upi /\ pi

\* search_simple (content_lower LIKE %query_lower%) and the scan
\* _search_with_persistent_index makes of content.lower().
PersistentHits(d, query) ==
    {r.filepath : r \in {x \in BagToSet(d.file_index) :
        /\ Contains(x.content_lower.text, LowerText(query))
        /\ Contains(LowerContent(x.content).text, LowerText(query))}}

\* _search_with_memory_index: query_lower in file_data['content'].
MemoryHits(idx, query) ==
    {e.filepath : e \in {x \in idx : Contains(x.content.text, LowerText(query))}}

\* search_regex for a pattern of literal characters shorter than the
\* pre-filter threshold: every row is scanned with the compiled pattern.
RegexHits(d, pattern) ==
    {r.filepath : r \in {x \in BagToSet(d.file_index) :
        Contains(x.content.text, pattern)}}

\* _search_by_regex_memory on the same patterns.
RegexMemoryHits(idx, pattern) ==
    {e.filepath : e \in {x \in idx : Contains(x.original_content.text, pattern)}}

\* The files a search finds in the index it is answered from.
SearchHits(op, query, persistent, file_index, memory) ==
    IF persistent
    THEN IF op = "search_notes"
         THEN PersistentHits([file_index |-> file_index], query)
         ELSE RegexHits([file_index |-> file_index], query)
    ELSE IF op = "search_notes"
         THEN MemoryHits(memory, query)
         ELSE RegexMemoryHits(memory, query)

\* LIMIT ? / results[:max_results]: which hits survive is not fixed.
Truncate(hits, limit) ==
    {S \in SUBSET hits :
        Cardinality(S) = IF Cardinality(hits) < limit THEN Cardinality(hits)
                         ELSE limit}

Init ==
    /\ tool = NoTool
    /\ db = EmptyDb
    /\ committed = EmptyDb
    /\ lock = 0
    /\ TasksAtRest
    /\ disk = [p \in Paths |-> IF p = "a.md" THEN FileOf(0, DocProps, TRUE)
                                ELSE NoFile]
    /\ now = 0
    /\ store_writable = TRUE
    /\ store_failed = FALSE
    /\ use_persistent_index = TRUE
    /\ persistent_index = FALSE
    /\ persistent_index_initialized = FALSE
    /\ search_index = {}
    /\ index_timestamp = NoTimestamp
    /\ index_lock = 0
    /\ cpc = [c \in Callers |-> "idle"]
    /\ carg = [c \in Callers |-> NoSearch]
    /\ searches = 0
    /\ fs_changes = 0

\* search_notes / search_by_regex up to their first suspension:
\* _initialize_persistent_index when it is due (opens says whether SQLite
\* could open the database; a failure switches the persistent index off),
\* then the staleness test.  A search of a fresh index goes on to its query.
\* A caller that has its answer may search again.
SearchCall(c, op, query, opens) ==
    /\ cpc[c] \in {"idle", "done"}
    /\ searches + fs_changes < MaxEvents
    /\ searches' = searches + 1
    /\ LET needInit == use_persistent_index /\ ~persistent_index_initialized
           upi == IF needInit /\ ~opens THEN FALSE ELSE use_persistent_index
           pi == IF needInit THEN opens ELSE persistent_index
           pii == IF needInit /\ opens THEN TRUE ELSE persistent_index_initialized
           d == IF needInit /\ opens THEN committed ELSE db
           stale == Stale(index_timestamp, now)
           hits == SearchHits(op, query, UsesPersistent(upi, pi), d.file_index,
                              search_index)
           call == [NoSearch EXCEPT !.op = op, !.query = query, !.stale = stale,
                                    !.during = (index_lock # 0), !.snap = hits,
                                    !.opened = (needInit /\ opens)]
       IN /\ opens \in (IF needInit THEN BOOLEAN ELSE {TRUE})
          /\ use_persistent_index' = upi
          /\ persistent_index' = pi
          /\ persistent_index_initialized' = pii
          /\ db' = d
          /\ store_failed' = (store_failed \/ (needInit /\ ~opens))
          /\ IF AwaitsUpdate(stale)
             THEN /\ cpc' = [cpc EXCEPT ![c] = "update"]
                  /\ carg' = [carg EXCEPT ![c] = call]
             ELSE /\ cpc' = [cpc EXCEPT ![c] = "search"]
                  /\ carg' = [carg EXCEPT ![c] = call]
    /\ UNCHANGED <<committed, lock, taskVars, toolVars, disk, now, store_writable,
                   search_index, index_timestamp, index_lock, fs_changes>>

IndexLockFree == index_lock = 0

\* _update_search_index: "async with self._index_lock", then the choice of
\* the index and the start of its walk over rglob("*.md"); the in-memory
\* index is cleared first.
UpdateBegin(c) ==
    /\ cpc[c] = "update"
    /\ IndexLockFree
    /\ index_lock' = c
    /\ LET files == {p \in Paths : disk[p].exists}
       IN IF UsesPersistent(use_persistent_index, persistent_index)
          THEN /\ cpc' = [cpc EXCEPT ![c] = "walk"]
               /\ carg' = [carg EXCEPT ![c].mode = "persistent",
                                       ![c].walked = files, ![c].todo = files]
               /\ UNCHANGED search_index
          ELSE /\ cpc' = [cpc EXCEPT ![c] = "mwalk"]
               /\ carg' = [carg EXCEPT ![c].mode = "memory",
                                       ![c].walked = files, ![c].todo = files]
               /\ search_index' = {}
    /\ UNCHANGED <<storeVars, taskVars, toolVars, disk, now, store_writable, store_failed,
                   use_persistent_index, persistent_index,
                   persistent_index_initialized, index_timestamp, searches,
                   fs_changes>>

\* The arguments _update_persistent_index passes to index_file for a file.
ArgsOfFile(p, f) ==
    [filepath |-> p, content |-> f.doc, mtime |-> f.mtime,
     size |-> ByteSize(f.doc), metadata |-> ExtractFileMetadata(f.doc)]

\* A walk that asks no needs_update and ingests every file it finds.
RefreshOutcomeEveryFile(d, p, f, writable) ==
    IF ~f.exists THEN "stat_failed"
    ELSE IF ~f.decodable THEN "read_failed"
    ELSE IF ~writable THEN "write_failed"
    ELSE IF ~IndexFile(d, ArgsOfFile(p, f)).ok THEN "insert_failed"
    ELSE "indexed"

\* The body of the loop of _update_persistent_index for one file: stat,
\* needs_update, read, index_file; whatever raises is caught for this file.
RefreshOutcome(d, p, f, writable) ==
    IF ~f.exists THEN "stat_failed"
    ELSE IF ~NeedsUpdate(d, p, f.mtime, ByteSize(f.doc)) THEN "unchanged"
    ELSE IF ~f.decodable THEN "read_failed"
    ELSE IF ~writable THEN "write_failed"
    ELSE IF ~IndexFile(d, ArgsOfFile(p, f)).ok THEN "insert_failed"
    ELSE "indexed"

Failures == {"stat_failed", "read_failed", "write_failed", "insert_failed"}

\* A failure that ends the walk.
TodoAfterFailureAbort(todo, p) == {}

\* "except Exception: ... continue"
TodoAfterFailure(todo, p) == todo \ {p}

\* One file of the walk of _update_persistent_index.
RefreshFile(c, p) ==
    /\ cpc[c] = "walk"
    /\ p \in carg[c].todo
    /\ LockFree
    /\ LET f == disk[p]
           outcome == RefreshOutcome(db, p, f, store_writable)
           res == IndexFile(db, ArgsOfFile(p, f))
       IN /\ db' = IF outcome \in {"insert_failed", "indexed"} THEN res.db ELSE db
          /\ committed' = IF outcome = "indexed" THEN res.db ELSE committed
          /\ search_index' =
                IF outcome = "indexed"
                THEN {e \in search_index : e.filepath # p}
                       \cup {MemoryEntry(p, f.doc, f.mtime, ByteSize(f.doc))}
                ELSE search_index
          /\ store_failed' = (store_failed \/ outcome = "write_failed")
          /\ carg' = [carg EXCEPT
                ![c].existing_files = IF f.exists THEN @ \cup {p} ELSE @,
                ![c].failed = IF outcome \in Failures THEN @ \cup {p} ELSE @,
                ![c].ingested = IF outcome = "indexed" THEN @ \cup {p} ELSE @,
                ![c].unchanged = IF outcome = "unchanged" THEN @ \cup {p} ELSE @,
                ![c].late = IF outcome = "indexed" /\ carg[c].failed # {}
                            THEN @ \cup {p} ELSE @,
                ![c].todo = IF outcome \in Failures
                            THEN TodoAfterFailure(@, p) ELSE @ \ {p}]
    /\ UNCHANGED <<lock, taskVars, toolVars, disk, now, store_writable,
                   use_persistent_index, persistent_index,
                   persistent_index_initialized, index_timestamp, index_lock,
                   cpc, searches, fs_changes>>

\* The end of the walk: clear_orphaned_entries(existing_files).  With no
\* orphan it returns, the timestamp is set and the index lock is left, all
\* without a suspension; the search goes on to its query.  With an orphan
\* it awaits remove_file while it holds the store's lock.
ClearOrphans(c) ==
    /\ cpc[c] = "walk"
    /\ carg[c].todo = {}
    /\ LockFree
    /\ IF Orphaned(db, carg[c].existing_files) = {}
       THEN /\ index_timestamp' = now
            /\ index_lock' = 0
            /\ cpc' = [cpc EXCEPT ![c] = "search"]
            /\ carg' = [carg EXCEPT ![c].cycle_done = TRUE,
                                    ![c].at_end = IndexedFiles(db)]
            /\ UNCHANGED lock
       ELSE /\ lock' = c
            /\ cpc' = [cpc EXCEPT ![c] = "blocked"]
            /\ UNCHANGED <<index_timestamp, index_lock, carg>>
    /\ UNCHANGED <<db, committed, taskVars, toolVars, disk, now, store_writable,
                   store_failed, use_persistent_index, persistent_index,
                   persistent_index_initialized, search_index, searches,
                   fs_changes>>

\* One file of the walk of _update_memory_index: stat, read, store; a file
\* that cannot be read is skipped.
MemoryFile(c, p) ==
    /\ cpc[c] = "mwalk"
    /\ p \in carg[c].todo
    /\ LET f == disk[p]
           stored == f.exists /\ f.decodable
       IN /\ search_index' =
                IF stored
                THEN {e \in search_index : e.filepath # p}
                       \cup {MemoryEntry(p, f.doc, f.mtime, ByteSize(f.doc))}
                ELSE search_index
          /\ carg' = [carg EXCEPT
                ![c].failed = IF stored THEN @ ELSE @ \cup {p},
                ![c].ingested = IF stored THEN @ \cup {p} ELSE @,
                ![c].late = IF stored /\ carg[c].failed # {}
                            THEN @ \cup {p} ELSE @,
                ![c].todo = IF stored THEN @ \ {p} ELSE TodoAfterFailure(@, p)]
    /\ UNCHANGED <<storeVars, taskVars, toolVars, disk, now, store_writable, store_failed,
                   use_persistent_index, persistent_index,
                   persistent_index_initialized, index_timestamp, index_lock,
                   cpc, searches, fs_changes>>

\* The end of _update_memory_index: timestamp, index lock.
MemoryDone(c) ==
    /\ cpc[c] = "mwalk"
    /\ carg[c].todo = {}
    /\ index_timestamp' = now
    /\ index_lock' = 0
    /\ cpc' = [cpc EXCEPT ![c] = "search"]
    /\ carg' = [carg EXCEPT ![c].cycle_done = TRUE,
                            ![c].at_end = {e.filepath : e \in search_index}]
    /\ UNCHANGED <<storeVars, taskVars, toolVars, disk, now, store_writable, store_failed,
                   use_persistent_index, persistent_index,
                   persistent_index_initialized, search_index, searches,
                   fs_changes>>

\* _search_with_persistent_index / _search_with_memory_index (search_regex /
\* _search_by_regex_memory for a pattern): the query runs on the index as it
\* is now, the caller gets its answer.
SearchAnswer(c) ==
    /\ cpc[c] = "search"
    /\ cpc' = [cpc EXCEPT ![c] = "done"]
    /\ \E r \in Truncate(SearchHits(carg[c].op, carg[c].query,
                           UsesPersistent(use_persistent_index, persistent_index),
                           db.file_index, search_index), MaxResults) :
         carg' = [carg EXCEPT ![c].result = r]
    /\ UNCHANGED <<storeVars, taskVars, toolVars, disk, now, store_writable, store_failed,
                   use_persistent_index, persistent_index,
                   persistent_index_initialized, search_index, index_timestamp,
                   index_lock, searches, fs_changes>>

\* ------------------------------------------------------- the environment
\* Somebody writes a markdown file; its st_mtime is the time of the write.
WriteFile(p, body) ==
    /\ searches + fs_changes < MaxEvents
    /\ fs_changes' = fs_changes + 1
    /\ disk' = [disk EXCEPT ![p] = FileOf(now, body.doc, body.decodable)]
    /\ disk' # disk
    /\ UNCHANGED <<storeVars, taskVars, toolVars, now, store_writable, store_failed,
                   use_persistent_index, persistent_index,
                   persistent_index_initialized, search_index, index_timestamp,
                   index_lock, cpc, carg, searches>>

\* Somebody deletes a markdown file.
DeleteFile(p) ==
    /\ searches + fs_changes < MaxEvents
    /\ disk[p].exists
    /\ fs_changes' = fs_changes + 1
    /\ disk' = [disk EXCEPT ![p] = NoFile]
    /\ UNCHANGED <<storeVars, taskVars, toolVars, now, store_writable, store_failed,
                   use_persistent_index, persistent_index,
                   persistent_index_initialized, search_index, index_timestamp,
                   index_lock, cpc, carg, searches>>

\* Time passes.
Tick(d) ==
    /\ now + d <= MaxNow
    /\ now' = now + d
    /\ UNCHANGED <<storeVars, taskVars, toolVars, disk, store_writable, store_failed,
                   use_persistent_index, persistent_index,
                   persistent_index_initialized, search_index, index_timestamp,
                   index_lock, cpc, carg, searches, fs_changes>>

\* The database stops taking writes (read-only file, full disk).
StoreBreaks ==
    /\ store_writable
    /\ persistent_index
    /\ store_writable' = FALSE
    /\ UNCHANGED <<storeVars, taskVars, toolVars, disk, now, store_failed,
                   use_persistent_index, persistent_index,
                   persistent_index_initialized, search_index, index_timestamp,
                   index_lock, cpc, carg, searches, fs_changes>>

\* ObsidianVault.close between two calls: the connection is closed (SQLite
\* rolls back what was not committed), persistent_index is None and
\* _persistent_index_initialized is False again, so the next search opens
\* the store anew.  The timestamp and the in-memory index stay.
CloseVault ==
    /\ persistent_index
    /\ \A c \in Callers : cpc[c] \in {"idle", "done"}
    /\ LockFree
    /\ db' = committed
    /\ persistent_index' = FALSE
    /\ persistent_index_initialized' = FALSE
    /\ UNCHANGED <<committed, lock, taskVars, toolVars, disk, now, store_writable,
                   store_failed, use_persistent_index, search_index,
                   index_timestamp, index_lock, cpc, carg, searches, fs_changes>>

Next ==
    \/ \E c \in Callers, op \in SearchOps, query \in Queries, opens \in BOOLEAN :
          SearchCall(c, op, query, opens)
    \/ \E c \in Callers : UpdateBegin(c)
    \/ \E c \in Callers, p \in Paths : RefreshFile(c, p)
    \/ \E c \in Callers : ClearOrphans(c)
    \/ \E c \in Callers, p \in Paths : MemoryFile(c, p)
    \/ \E c \in Callers : MemoryDone(c)
    \/ \E c \in Callers : SearchAnswer(c)
    \/ \E p \in Paths, body \in FileBodies : WriteFile(p, body)
    \/ \E p \in Paths : DeleteFile(p)
    \/ \E d \in TickSteps : Tick(d)
    \/ StoreBreaks
    \/ CloseVault

Spec == Init /\ [][Next]_vars

\* ------------------------------------------------- claims on the vault
\* The callers whose refresh cycle over the persistent index has completed.
Completed == {c \in Callers : carg[c].cycle_done /\ carg[c].mode = "persistent"}

Walking == {c \in Callers : cpc[c] \in {"walk", "mwalk", "blocked"}}

\* C6: at most one refresh cycle is in flight, and a trigger that arrived
\* while a refresh was running never starts a walk of its own.
C6_SecondTriggerIsNoOp ==
    /\ Cardinality(Walking) <= 1
    /\ \A c \in Callers : carg[c].during => c \notin Walking

C9_DegradesOnStoreFailure ==
    store_failed => ~UsesPersistent(use_persistent_index, persistent_index)

\* The callers whose walk has no file left.
WalkedThrough ==
    {c \in Callers : carg[c].mode # "none" /\ carg[c].todo = {}}

\* C10: a failure on one file of a refresh cycle is caught for that file
\* only: when the walk is through, every walked file that did not fail has
\* been ingested or needed no update, and only then the cycle goes on to
\* the orphan sweep and its end.
C10_FailureSkipsOneFile ==
    \A c \in Callers :
        /\ c \in WalkedThrough =>
              carg[c].walked \ carg[c].failed
                  \subseteq carg[c].ingested \cup carg[c].unchanged
        /\ (cpc[c] = "blocked" \/ carg[c].cycle_done) => c \in WalkedThrough

\* A walk is through, a file of it has failed and another one has been
\* ingested after that failure.
C10_Witness ==
    \E c \in WalkedThrough :
        /\ cpc[c] = "walk"
        /\ carg[c].failed # {}
        /\ carg[c].late # {}

\* ----------------------------------------------------- the search tools
\* The dialects of the search_notes tool, by the prefix of the query.
\* The keys of one result item of each dialect.
ItemKeys(dialect) ==
    IF dialect = "content"
    THEN {"path", "score", "matches", "match_count", "context"}
    ELSE IF dialect = "property"
    THEN {"path", "score", "matches", "context", "property_value"}
    ELSE {"path", "score", "matches", "context"}

\* The results of a dialect over a vault in which n notes meet the query.
\* The tool passes no max_results to the vault, whose default applies:
\* ObsidianVault.search_notes returns min(n, max_results) items (LIMIT ? in
\* search_simple, results[:max_results] in the in-memory search).  The tag,
\* path and property dialects return every note that matches (the cap of
\* 200 on the property search of the index is beyond MaxDocs).
DialectResults(dialect, n) ==
    LET k == IF dialect = "content" /\ n >= MaxResults THEN MaxResults ELSE n
    IN [i \in 1..k |-> [doc |-> i, keys |-> ItemKeys(dialect)]]

\* The envelope of search_notes: what it returns, and what it returns when
\* the search of the dialect raises.
SearchNotesEnvelope(results, raised) ==
    IF raised
    THEN [keys |-> {"results", "count", "query", "truncated", "error"},
          results |-> << >>, count |-> 0, truncated |-> FALSE]
    ELSE [keys |-> {"results", "count", "query", "truncated"},
          results |-> results, count |-> Len(results), truncated |-> FALSE]

\* The search_notes tool on a vault in which n notes meet the query.
SearchNotesTool ==
    /\ ToolIdle
    /\ \E dialect \in {"tag", "path", "property", "content"},
          n \in 0..MaxDocs, raises \in BOOLEAN :
          tool' = [op |-> "search_notes", dialect |-> dialect, n |-> n,
                   raises |-> raises,
                   out |-> SearchNotesEnvelope(DialectResults(dialect, n),
                                               raises)]
    /\ UNCHANGED <<storeVars, taskVars, vaultVars>>

\* C11: a plain content search over an index in which N documents contain
\* the query returns count = min(N, max_results), totalCount = N and
\* truncated = (N > max_results).
C11_TruncationAccounting ==
    (tool.op = "search_notes" /\ tool.dialect = "content" /\ ~tool.raises) =>
        /\ tool.out.count = (IF tool.n < MaxResults THEN tool.n
                              ELSE MaxResults)
        /\ "totalCount" \in tool.out.keys
        /\ tool.out.truncated = (tool.n > MaxResults)

\* C12: every dialect returns the same envelope: results, count, totalCount
\* and truncated, count being the number of items, and every item carries
\* path, score, matches and context.
C12_SameEnvelope ==
    (tool.op = "search_notes" /\ ~tool.raises) =>
        /\ {"results", "count", "totalCount", "truncated"} \subseteq tool.out.keys
        /\ tool.out.count = Len(tool.out.results)
        /\ \A i \in DOMAIN tool.out.results :
              {"path", "score", "matches", "context"}
                  \subseteq tool.out.results[i].keys

\* ------------------------------------------------------------- tag search
\* The texts of at most n characters over an alphabet.
TextsUpTo(n, alphabet) == UNION {[1..k -> alphabet] : k \in 0..n}

\* The tags of at most n characters as Obsidian writes them, nested with
\* "/": no segment is empty.
TagsUpTo(n) ==
    {s \in TextsUpTo(n, {"p", "w", "/"}) :
        /\ s # << >>
        /\ s[1] # "/"
        /\ s[Len(s)] # "/"
        /\ \A i \in 1..(Len(s) - 1) : ~(s[i] = "/" /\ s[i + 1] = "/")}

\* str.startswith
StartsWith(s, prefix) ==
    Len(prefix) <= Len(s) /\ SubSeq(s, 1, Len(prefix)) = prefix

\* A tag search that knows the exact match and the parent match only.
TagMatchesNoLeaf(note_tag, tag) ==
    \/ note_tag = tag
    \/ StartsWith(note_tag, tag \o <<"/">>)

\* The four tests _search_by_tag makes of one tag of a note; last is
\* note_tag.split("/")[-1].
TagMatches(note_tag, tag) ==
    LET nested == \E i \in 1..Len(note_tag) : note_tag[i] = "/"
        after == {i \in 0..Len(note_tag) :
                     \A j \in (i + 1)..Len(note_tag) : note_tag[j] # "/"}
        from == CHOOSE i \in after : \A k \in after : i <= k
        last == SubSeq(note_tag, from + 1, Len(note_tag))
    IN \/ note_tag = tag
       \/ StartsWith(note_tag, tag \o <<"/">>)
       \/ nested /\ last = tag
       \/ /\ nested
          /\ Contains(<<"/">> \o note_tag \o <<"/">>,
                      <<"/">> \o tag \o <<"/">>)

\* _search_by_tag for one note: its matching tags in the order of the note,
\* and the score 1.0 (scores are carried in tenths).
SearchByTag(tags, tag) ==
    LET matching_tags == SelectSeq(tags, LAMBDA d : TagMatches(d, tag))
    IN [matched |-> matching_tags # << >>, matches |-> matching_tags,
        score |-> 10]

\* _search_by_tag on a note with one tag or two.
SearchByTagCall ==
    /\ ToolIdle
    /\ \E D \in TagsUpTo(MaxTagLen), more \in {<< >>, << <<"p">> >>},
          tag \in TagsUpTo(MaxTermLen) :
          tool' = [op |-> "search_by_tag", tags |-> <<D>> \o more, tag |-> tag,
                   out |-> SearchByTag(<<D>> \o more, tag)]
    /\ UNCHANGED <<storeVars, taskVars, vaultVars>>

\* The positions of "/" in a tag.
SlashesOf(s) == {i \in 1..Len(s) : s[i] = "/"}

\* The "/"-separated segments of a tag, as the bounds of each segment.
SegmentBounds(s) ==
    LET cuts == SlashesOf(s) \cup {0, Len(s) + 1}
    IN {b \in cuts \X cuts :
          b[1] < b[2] /\ \A c \in cuts : ~(b[1] < c /\ c < b[2])}

\* The segments of a tag with their position from the left.
SegmentAt(s, b) == SubSeq(s, b[1] + 1, b[2] - 1)
IsFirstSegment(s, b) == b[1] = 0
IsLastSegment(s, b) == b[2] = Len(s) + 1

\* The rule of C13 for one tag D and the term T.
TagRule(D, T) ==
    \/ D = T
    \/ StartsWith(D, T \o <<"/">>)
    \/ \E b \in SegmentBounds(D) : IsLastSegment(D, b) /\ SegmentAt(D, b) = T
    \/ \E b \in SegmentBounds(D) :
          /\ ~IsFirstSegment(D, b)
          /\ ~IsLastSegment(D, b)
          /\ SegmentAt(D, b) = T

\* The amended rule: D is T, or D has several segments and T is a run of
\* consecutive whole segments of D.
TagRunRule(D, T) ==
    \/ D = T
    \/ /\ SlashesOf(D) # {}
       /\ \E b1 \in SegmentBounds(D), b2 \in SegmentBounds(D) :
             b1[1] <= b2[1] /\ SubSeq(D, b1[1] + 1, b2[2] - 1) = T

CharTable == <<" ", "!", "\"", "*", ",", "0", "1", "2", "3", "4", "5", "6", "7",
               "8", "9", ":", "<", "=", ">", "[", "]", "h", "n">>
Ord(ch) == CHOOSE i \in 1..Len(CharTable) : CharTable[i] = ch

\* str(n) of a natural number.
RECURSIVE DecimalText(_)
DecimalText(n) ==
    IF n < 10 THEN <<CharTable[Ord("0") + n]>>
    ELSE DecimalText(n \div 10) \o <<CharTable[Ord("0") + (n % 10)]>>

\* SQLite's CAST(text AS REAL) on texts without sign, point and exponent:
\* the value of the longest prefix of digits, 0 when there is none.
CastAsReal(text) ==
    LET RECURSIVE CastPrefix(_, _)
        CastPrefix(t, acc) ==
            IF t = << >> \/ Ord(Head(t)) \notin Ord("0")..Ord("9") THEN acc
            ELSE CastPrefix(Tail(t), 10 * acc + Ord(Head(t)) - Ord("0"))
    IN CastPrefix(text, 0)

\* SQLite's comparison of two TEXT values (BINARY collation).
RECURSIVE TextLess(_, _)
TextLess(a, b) ==
    IF b = << >> THEN FALSE
    ELSE IF a = << >> THEN TRUE
    ELSE IF Head(a) # Head(b) THEN Ord(Head(a)) < Ord(Head(b))
    ELSE TextLess(Tail(a), Tail(b))

\* x <operator> y for numbers.
CompareNumbers(operator, x, y) ==
    IF operator = ">" THEN x > y
    ELSE IF operator = "<" THEN x < y
    ELSE IF operator = ">=" THEN x >= y
    ELSE x <= y

\* x <operator> y for texts.
CompareTexts(operator, x, y) ==
    IF operator = ">" THEN TextLess(y, x)
    ELSE IF operator = "<" THEN TextLess(x, y)
    ELSE IF operator = ">=" THEN ~TextLess(x, y)
    ELSE ~TextLess(y, x)

\* A front-matter value as yaml.safe_load yields it: a number or a text.
NumberValue(n) == [kind |-> "number", num |-> n, text |-> << >>]

\* The row index_file writes for one property of a file: str(prop_value)
\* and the type of _determine_property_type (the texts are no ISO dates).
TypedPropertyRow(filepath, name, value) ==
    [filepath |-> filepath, property_name |-> name,
     property_value |-> IF value.kind = "number" THEN DecimalText(value.num)
                        ELSE value.text,
     property_type |-> IF value.kind = "number" THEN "number" ELSE "text"]

\* A WHERE clause that compares every value as TEXT.
ComparisonWhereAsText(row, property_name, operator, value) ==
    /\ row.property_name = property_name
    /\ CompareTexts(operator, row.property_value, value)

\* The WHERE clause of search_by_property for >, <, >= and <=.
ComparisonWhere(row, property_name, operator, value) ==
    /\ row.property_name = property_name
    /\ \/ /\ row.property_type = "number"
          /\ CompareNumbers(operator, CastAsReal(row.property_value),
                            CastAsReal(value))
       \/ /\ row.property_type # "number"
          /\ CompareTexts(operator, row.property_value, value)

\* search_by_property for >, <, >= and <= over the rows of file_properties,
\* joined with the files of file_index; fewer rows match than the limit.
SearchByProperty(files, rows, property_name, operator, value) ==
    {r.filepath : r \in {x \in rows :
        /\ x.filepath \in files
        /\ ComparisonWhere(x, property_name, operator, value)}}

\* The files of the property searches and what their front matter may hold
\* under "priority": nothing, a number, a text.
PropertyFiles == {"p1.md", "p2.md", "p3.md"}
PriorityValues ==
    {[kind |-> "none", num |-> 0, text |-> << >>],
     [kind |-> "text", num |-> 0, text |-> <<"h">>]}
        \cup {NumberValue(n) : n \in {1, 3, 5, 12}}

\* search_by_property("priority", operator, str(q)) over three indexed
\* files; rows are the rows of an index that has ingested them.
SearchByPropertyCall ==
    /\ ToolIdle
    /\ \E front \in [PropertyFiles -> PriorityValues],
          operator \in {">", "<", ">=", "<="}, q \in 0..MaxQueryValue :
          LET rows == {TypedPropertyRow(f, "priority", front[f]) :
                         f \in {g \in PropertyFiles : front[g].kind # "none"}}
          IN tool' = [op |-> "search_by_property", front |-> front,
                      operator |-> operator, q |-> q,
                      out |-> SearchByProperty(PropertyFiles, rows, "priority",
                                               operator, DecimalText(q))]
    /\ UNCHANGED <<storeVars, taskVars, vaultVars>>

\* The files whose "priority" is a number.
NumberTyped(front) == {f \in PropertyFiles : front[f].kind = "number"}

\* C14: for a number-typed property and an operator of >, <, >=, <=,
\* search_by_property returns exactly the indexed documents whose number
\* satisfies the comparison with the query value.
C14_NumericComparison ==
    (tool.op = "search_by_property"
        /\ \A f \in PropertyFiles : tool.front[f].kind # "text") =>
        tool.out = {f \in NumberTyped(tool.front) :
                      CompareNumbers(tool.operator, tool.front[f].num, tool.q)}

\* Priorities 1, 3 and 12: "<=3" has returned the documents with 1 and 3,
\* not the one with 12.
C14_Witness ==
    /\ tool.op = "search_by_property"
    /\ tool.front = [f \in PropertyFiles |->
                        IF f = "p1.md" THEN NumberValue(1)
                        ELSE IF f = "p2.md" THEN NumberValue(3)
                        ELSE NumberValue(12)]
    /\ tool.operator = "<="
    /\ tool.q = 3
    /\ tool.out = {"p1.md", "p2.md"}

\* ------------------------------------------------- the property query
PropertyPrefix == <<"p", "r", "o", "p", "e", "r", "t", "y", ":">>

\* s[k:] of Python, k counted from 0.
FromIndex(s, k) == SubSeq(s, k + 1, Len(s))

\* str.endswith
EndsWith(s, suffix) ==
    Len(suffix) <= Len(s) /\ SubSeq(s, Len(s) - Len(suffix) + 1, Len(s)) = suffix

\* A parsed property query.
Parsed(name, operator, has_value, value) ==
    [error |-> FALSE, name |-> name, operator |-> operator,
     has_value |-> has_value, value |-> value]

\* A chain of tests that looks for > and < before >= and <=.
OperatorOfSpecShortFirst(name, value_part) ==
    IF value_part = <<"*">> THEN Parsed(name, "exists", FALSE, << >>)
    ELSE IF StartsWith(value_part, <<">">>)
    THEN Parsed(name, ">", TRUE, FromIndex(value_part, 1))
    ELSE IF StartsWith(value_part, <<"<">>)
    THEN Parsed(name, "<", TRUE, FromIndex(value_part, 1))
    ELSE IF StartsWith(value_part, <<"!", "=">>)
    THEN Parsed(name, "!=", TRUE, FromIndex(value_part, 2))
    ELSE IF StartsWith(value_part, <<"*">>) /\ EndsWith(value_part, <<"*">>)
    THEN Parsed(name, "contains", TRUE,
                SubSeq(value_part, 2, Len(value_part) - 1))
    ELSE Parsed(name, "=", TRUE, value_part)

\* The chain of tests _parse_property_query makes of the value part.
OperatorOfSpec(name, value_part) ==
    IF value_part = <<"*">> THEN Parsed(name, "exists", FALSE, << >>)
    ELSE IF StartsWith(value_part, <<">", "=">>)
    THEN Parsed(name, ">=", TRUE, FromIndex(value_part, 2))
    ELSE IF StartsWith(value_part, <<"<", "=">>)
    THEN Parsed(name, "<=", TRUE, FromIndex(value_part, 2))
    ELSE IF StartsWith(value_part, <<"!", "=">>)
    THEN Parsed(name, "!=", TRUE, FromIndex(value_part, 2))
    ELSE IF StartsWith(value_part, <<">">>)
    THEN Parsed(name, ">", TRUE, FromIndex(value_part, 1))
    ELSE IF StartsWith(value_part, <<"<">>)
    THEN Parsed(name, "<", TRUE, FromIndex(value_part, 1))
    ELSE IF StartsWith(value_part, <<"*">>) /\ EndsWith(value_part, <<"*">>)
    THEN Parsed(name, "contains", TRUE,
                SubSeq(value_part, 2, Len(value_part) - 1))
    ELSE Parsed(name, "=", TRUE, value_part)

\* _parse_property_query: query[9:], split(':', 1) at the first ":" (the
\* ValueError when there is none), the chain of tests.
ParsePropertyQuery(query) ==
    LET prop_query == FromIndex(query, 9)
        colons == {i \in 1..Len(prop_query) : prop_query[i] = ":"}
        colon == IF colons = {} THEN 0
                 ELSE CHOOSE i \in colons : \A j \in colons : i <= j
    IN IF colon = 0
       THEN [error |-> TRUE, name |-> << >>, operator |-> "",
             has_value |-> FALSE, value |-> << >>]
       ELSE OperatorOfSpec(SubSeq(prop_query, 1, colon - 1),
                           FromIndex(prop_query, colon))

\* _parse_property_query on "property:" followed by a short text.
ParsePropertyQueryCall ==
    /\ ToolIdle
    /\ \E rest \in TextsUpTo(MaxQueryLen,
                              {"n", ":", "*", ">", "<", "=", "!", "5"}) :
          tool' = [op |-> "parse_property_query",
                   query |-> PropertyPrefix \o rest,
                   out |-> ParsePropertyQuery(PropertyPrefix \o rest)]
    /\ UNCHANGED <<storeVars, taskVars, vaultVars>>

\* The two-character and the one-character operators of a spec, as texts.
LongOperators ==
    {[text |-> <<">", "=">>, operator |-> ">="],
     [text |-> <<"<", "=">>, operator |-> "<="],
     [text |-> <<"!", "=">>, operator |-> "!="]}
ShortOperators ==
    {[text |-> <<">">>, operator |-> ">"], [text |-> <<"<">>, operator |-> "<"]}

\* What C15 says of property:<name>:<spec>.
SpecRule(spec, out) ==
    LET long == {o \in LongOperators : StartsWith(spec, o.text)}
        short == {o \in ShortOperators : StartsWith(spec, o.text)}
        starred == Len(spec) >= 2 /\ spec[1] = "*" /\ spec[Len(spec)] = "*"
    IN /\ spec = <<"*">> => out.operator = "exists" /\ ~out.has_value
       /\ \A o \in long :
             out.operator = o.operator /\ out.has_value
                 /\ o.text \o out.value = spec
       /\ long = {} =>
             \A o \in short :
                 out.operator = o.operator /\ out.has_value
                     /\ o.text \o out.value = spec
       /\ starred =>
             out.operator = "contains" /\ out.has_value
                 /\ <<"*">> \o out.value \o <<"*">> = spec
       /\ (spec # <<"*">> /\ long = {} /\ short = {} /\ ~starred) =>
             out.operator = "=" /\ out.has_value /\ out.value = spec

\* C15: _parse_property_query maps property:<name>:<spec> to the name, the
\* operator and the value: "*" is exists without a value, a leading >=, <=,
\* !=, > or < is the operator (two characters before one) and the rest the
\* value, *v* is contains v, anything else is "=" with the whole spec; a
\* query without ":" after the name raises ValueError.
C15_PropertyQueryGrammar ==
    tool.op = "parse_property_query" =>
        LET rest == FromIndex(tool.query, Len(PropertyPrefix))
            colons == {i \in 1..Len(rest) : rest[i] = ":"}
        IN /\ tool.out.error <=> colons = {}
           /\ \A c \in colons :
                 (\A j \in colons : c <= j) =>
                     /\ tool.out.name \o <<":">> = SubSeq(rest, 1, c)
                     /\ SpecRule(SubSeq(rest, c + 1, Len(rest)), tool.out)

\* "property:n:>=5" has been parsed to n >= 5.
C15_Witness ==
    /\ tool.op = "parse_property_query"
    /\ tool.query = PropertyPrefix \o <<"n", ":", ">", "=", "5">>
    /\ tool.out = Parsed(<<"n">>, ">=", TRUE, <<"5">>)

\* ------------------------------------------------------------ line numbers
Newline == "\n"

\* The document "a\nb\nTODO: x\n".
TodoDoc ==
    <<"a", Newline, "b", Newline, "T", "O", "D", "O", ":", " ", "x", Newline>>

\* Offsets that point at the newline instead of the start of the line.
RECURSIVE CalculateLineOffsetsAtNewline(_)
CalculateLineOffsetsAtNewline(content) ==
    IF content = << >> THEN <<0>>
    ELSE LET before == SubSeq(content, 1, Len(content) - 1)
         IN IF content[Len(content)] = Newline
            THEN CalculateLineOffsetsAtNewline(before) \o <<Len(content) - 1>>
            ELSE CalculateLineOffsetsAtNewline(before)

\* _calculate_line_offsets: 0, and i + 1 for every newline at index i.
RECURSIVE CalculateLineOffsets(_)
CalculateLineOffsets(content) ==
    IF content = << >> THEN <<0>>
    ELSE LET before == SubSeq(content, 1, Len(content) - 1)
         IN IF content[Len(content)] = Newline
            THEN CalculateLineOffsets(before) \o <<Len(content)>>
            ELSE CalculateLineOffsets(before)

\* _find_line_number and its loop; line_starts is indexed from 0 in the
\* code.
FindLineNumber(line_starts, position) ==
    LET RECURSIVE Loop(_, _)
        Loop(left, right) ==
            IF left > right THEN Len(line_starts)
            ELSE LET mid == (left + right) \div 2
                 IN IF mid + 1 < Len(line_starts)
                    THEN IF line_starts[mid + 1] <= position
                              /\ position < line_starts[mid + 2]
                         THEN mid + 1
                         ELSE IF position < line_starts[mid + 1]
                         THEN Loop(left, mid - 1)
                         ELSE Loop(mid + 1, right)
                    ELSE mid + 1
    IN Loop(0, Len(line_starts) - 1)

\* The line of a match in _search_by_regex_memory.  line_starts adds up
\* from content.split('\n'): 0, and for every line but the last the start of
\* the line after it; the scan returns the index of the first start beyond
\* the match, len(lines) when there is none.
MemoryLineNumber(content, match_start) ==
    LET line_starts == {0} \cup {i \in 1..Len(content) : content[i] = Newline}
        beyond == {start \in line_starts : start > match_start}
    IN IF beyond = {} THEN Cardinality(line_starts)
       ELSE LET first == CHOOSE b \in beyond : \A c \in beyond : b <= c
            IN Cardinality({start \in line_starts : start < first})

\* The line of a match as _search_file_content reports it: from the offsets
\* index_file has stored (a list that is never empty), as the fallback
\* computes it (content[:match_start].count('\n') + 1), and as the in-memory
\* search computes it.
LineOfMatchCall ==
    /\ ToolIdle
    /\ \E content \in TextsUpTo(MaxLineText, {"a", Newline}) \cup {TodoDoc} :
          \E position \in 0..Len(content) :
             tool' = [op |-> "line_of_match", content |-> content,
                      position |-> position,
                      line |-> FindLineNumber(CalculateLineOffsets(content),
                                              position),
                      fallback |->
                         Cardinality({i \in 1..position :
                                         content[i] = Newline}) + 1,
                      memory |-> MemoryLineNumber(content, position)]
    /\ UNCHANGED <<storeVars, taskVars, vaultVars>>

\* C16: the line number reported for a match is 1 plus the number of
\* newlines before the start of the match, for every position from 0 to the
\* length of the document, by the offset table, by the fallback and by the
\* in-memory search alike.
C16_LineNumber ==
    tool.op = "line_of_match" =>
        LET before == {i \in 1..Len(tool.content) :
                         i <= tool.position /\ tool.content[i] = Newline}
        IN /\ tool.line = 1 + Cardinality(before)
           /\ tool.fallback = tool.line
           /\ tool.memory = tool.line

\* The match of TODO.* in "a\nb\nTODO: x\n" has been reported at line 3.
C16_Witness ==
    /\ tool.op = "line_of_match"
    /\ tool.content = TodoDoc
    /\ SubSeq(tool.content, tool.position + 1, tool.position + 4)
          = <<"T", "O", "D", "O">>
    /\ tool.line = 3

\* ------------------------------------------------ the scan of large files
\* _process_file_regex and _search_large_file_streaming.  Positions count
\* from 0 as in the code; chunk_size and overlap are scaled down (ChunkSize,
\* Overlap), the scan uses them only in sums and comparisons of positions,
\* and the 1MB threshold is two chunks as in the code.  The patterns are
\* literals, which regex.finditer finds from left to right without overlap.

\* max_matches, the default both scans are called with.
MaxMatches == 5

\* content[from:to]
Slice(content, from, to) == SubSeq(content, from + 1, to)

\* regex.finditer(text) for a literal pattern: the starts of its matches,
\* each search resuming where the match before ended.
FindIter(literal, text) ==
    LET RECURSIVE From(_)
        From(from) ==
            LET found == {i \in from..(Len(text) - Len(literal)) :
                             Slice(text, i, i + Len(literal)) = literal}
            IN IF found = {} THEN <<>>
               ELSE LET first == CHOOSE i \in found : \A j \in found : i <= j
                    IN <<first>> \o From(first + Len(literal))
    IN From(0)

\* _search_large_file_streaming: Chunks is the loop over the chunks from
\* position pos on, ChunkLoop the loop over the matches of one chunk from
\* its k-th match on.  The entries keep match_start, which the code removes
\* at the end, to tell them apart.
SearchLargeFileStreaming(content, literal) ==
    LET RECURSIVE ChunkLoop(_, _, _, _)
        ChunkLoop(starts, k, chunk_start, match_contexts) ==
            IF k > Len(starts) THEN match_contexts
            ELSE LET match_start == chunk_start + starts[k]
                 IN IF /\ match_contexts # <<>>
                       /\ match_start
                            <= match_contexts[Len(match_contexts)].match_start
                    THEN ChunkLoop(starts, k + 1, chunk_start, match_contexts)
                    ELSE LET added == Append(match_contexts,
                                         [match |-> literal,
                                          match_start |-> match_start])
                         IN IF Len(added) >= MaxMatches THEN added
                            ELSE ChunkLoop(starts, k + 1, chunk_start, added)
        RECURSIVE Chunks(_, _)
        Chunks(pos, match_contexts) ==
            IF ~(pos < Len(content) /\ Len(match_contexts) < MaxMatches)
            THEN match_contexts
            ELSE LET chunk_start == IF pos - Overlap > 0 THEN pos - Overlap
                                    ELSE 0
                     chunk_end == IF pos + ChunkSize < Len(content)
                                  THEN pos + ChunkSize ELSE Len(content)
                     chunk == Slice(content, chunk_start, chunk_end)
                 IN Chunks(pos + ChunkSize,
                           ChunkLoop(FindIter(literal, chunk), 1, chunk_start,
                                     match_contexts))
    IN Chunks(0, <<>>)

\* _process_file_regex: the streaming scan above the threshold of two
\* chunks, _search_file_content (the first max_matches matches of the whole
\* text) below it.
ProcessFileRegex(content, literal) ==
    IF Len(content) > 2 * ChunkSize
    THEN SearchLargeFileStreaming(content, literal)
    ELSE LET starts == FindIter(literal, content)
             kept == IF Len(starts) > MaxMatches THEN MaxMatches
                     ELSE Len(starts)
         IN [k \in 1..kept |-> [match |-> literal, match_start |-> starts[k]]]

ProcessFileRegexCall ==
    /\ ToolIdle
    /\ \E content \in TextsUpTo(MaxContent, {"a", "b"}) :
          \E literal \in TextsUpTo(MaxLiteral, {"a", "b"}) \ {<<>>} :
             tool' = [op |-> "process_file_regex", content |-> content,
                      literal |-> literal,
                      streamed |-> Len(content) > 2 * ChunkSize,
                      match_contexts |-> ProcessFileRegex(content, literal)]
    /\ UNCHANGED <<storeVars, taskVars, vaultVars>>

\* The chunk boundaries inside a text of length n.
Boundaries(n) == {b \in 1..(n - 1) : b % ChunkSize = 0}

\* How many entries report the match that starts at match_start.
TimesReported(match_contexts, match_start) ==
    Cardinality({k \in 1..Len(match_contexts) :
                    match_contexts[k].match_start = match_start})

\* The matches of the whole text that straddle a chunk boundary, and those
\* that lie in the overlap before one.
Straddling(content, literal) ==
    LET starts == FindIter(literal, content)
    IN {starts[k] : k \in 1..Len(starts)} \cap
       {s \in 0..Len(content) :
           \E b \in Boundaries(Len(content)) : s < b /\ b < s + Len(literal)}

InOverlap(content, literal) ==
    LET starts == FindIter(literal, content)
    IN {starts[k] : k \in 1..Len(starts)} \cap
       {s \in 0..Len(content) :
           \E b \in Boundaries(Len(content)) :
              b - Overlap <= s /\ s + Len(literal) <= b}

\* C17: in the streaming scan, when the cap on the matches of a file has not
\* ended the scan, every match that straddles a chunk boundary and every
\* match in the overlap of two chunks is reported exactly once.
C17_BoundaryMatchOnce ==
    (/\ tool.op = "process_file_regex"
     /\ tool.streamed
     /\ Len(tool.match_contexts) < MaxMatches) =>
        \A s \in Straddling(tool.content, tool.literal)
                    \cup InOverlap(tool.content, tool.literal) :
           TimesReported(tool.match_contexts, s) = 1

\* ---------------------------------------------------------- regex search
\* search_regex of the persistent index and search_by_regex of the vault.
\* The patterns are written with one letter, the alternation bar and the
\* star; the documents are words of that letter separated by single spaces.
\* Patterns that re.compile refuses raise ValueError; the patterns that match
\* the empty string are left out of the inputs.
RegexPaths == {"a.md", "b.md"}

\* max_parallel, as search_by_regex leaves it.
DefaultMaxParallel == 10

\* The shortest literal prefix that is used for pre-filtering.
MinPrefixLen == 3

DocsUpTo(n) ==
    {d \in TextsUpTo(n, {"a", " "}) :
        /\ d # <<>> => (d[1] # " " /\ d[Len(d)] # " ")
        /\ \A i \in 1..(Len(d) - 1) : ~(d[i] = " " /\ d[i + 1] = " ")}

\* re.compile: a star needs the letter it repeats.
Compiles(pattern) ==
    \A i \in 1..Len(pattern) :
        pattern[i] = "*" => (i > 1 /\ pattern[i - 1] = "a")

\* The alternatives of a pattern, in the order the engine tries them.
RECURSIVE Branches(_)
Branches(pattern) ==
    LET bars == {i \in 1..Len(pattern) : pattern[i] = "|"}
    IN IF bars = {} THEN <<pattern>>
       ELSE LET first == CHOOSE i \in bars : \A j \in bars : i <= j
            IN <<SubSeq(pattern, 1, first - 1)>>
                  \o Branches(SubSeq(pattern, first + 1, Len(pattern)))

\* The letters of an alternative that no star follows.
MinRun(branch) ==
    Cardinality({i \in 1..Len(branch) :
                    /\ branch[i] = "a"
                    /\ ~(i < Len(branch) /\ branch[i + 1] = "*")})

\* The patterns of at most n characters, without those that compile and
\* match the empty string.
RegexPatterns(n) ==
    {p \in TextsUpTo(n, {"a", "|", "*"}) :
        /\ p # <<>>
        /\ ~(/\ Compiles(p)
             /\ \E k \in 1..Len(Branches(p)) : MinRun(Branches(p)[k]) = 0)}

\* regex.finditer(text): the starts of the matches from left to right.
\* RunAt counts the letters that follow position i (from 0) without a break;
\* MatchLenAt is the length of the match at i: the first alternative, from
\* the k-th on, that matches there, greedily, 0 when none does.
RegexFindIter(pattern, text) ==
    LET RECURSIVE RunAt(_)
        RunAt(i) ==
            IF i < Len(text) /\ text[i + 1] = "a" THEN 1 + RunAt(i + 1) ELSE 0
        RECURSIVE MatchLenAt(_, _)
        MatchLenAt(i, k) ==
            IF k > Len(Branches(pattern)) THEN 0
            ELSE LET branch == Branches(pattern)[k]
                 IN IF RunAt(i) < MinRun(branch) THEN MatchLenAt(i, k + 1)
                    ELSE IF \E j \in 1..Len(branch) : branch[j] = "*"
                    THEN RunAt(i)
                    ELSE MinRun(branch)
        RECURSIVE From(_)
        From(i) ==
            IF i >= Len(text) THEN <<>>
            ELSE IF MatchLenAt(i, 1) = 0 THEN From(i + 1)
            ELSE <<i>> \o From(i + MatchLenAt(i, 1))
    IN From(0)

\* _extract_literal_prefix: the characters before the first metacharacter,
\* None (the empty text here) when they are fewer than three.
ExtractLiteralPrefix(pattern) ==
    LET meta == {i \in 1..Len(pattern) : pattern[i] \in {"|", "*"}}
        stop == IF meta = {} THEN Len(pattern) + 1
                ELSE CHOOSE i \in meta : \A j \in meta : i <= j
        literal == SubSeq(pattern, 1, stop - 1)
    IN IF Len(literal) >= MinPrefixLen THEN literal ELSE <<>>

\* The rows search_regex fetches, ORDER BY size ASC, mtime DESC: those whose
\* tokens in the full-text table (the words of the document) hold the
\* phrase '"prefix"' when the pattern has a literal prefix, every row of
\* file_index otherwise.  b.md is the newer of the two files.
RegexRows(files, pattern) ==
    LET literal_prefix == ExtractLiteralPrefix(pattern)
        mtime == [p \in RegexPaths |-> IF p = "a.md" THEN 1 ELSE 2]
        Tokens(doc) ==
            {SubSeq(doc, ij[1], ij[2]) : ij \in
                {ij \in (1..Len(doc)) \X (1..Len(doc)) :
                    /\ ij[1] <= ij[2]
                    /\ \A k \in ij[1]..ij[2] : doc[k] = "a"
                    /\ (ij[1] = 1 \/ doc[ij[1] - 1] = " ")
                    /\ (ij[2] = Len(doc) \/ doc[ij[2] + 1] = " ")}}
        candidates == IF literal_prefix # <<>>
                      THEN {p \in RegexPaths :
                               literal_prefix \in Tokens(files[p])}
                      ELSE RegexPaths
        Before(p, q) ==
            \/ Len(files[p]) < Len(files[q])
            \/ (Len(files[p]) = Len(files[q]) /\ mtime[p] > mtime[q])
    IN CHOOSE rows \in [1..Cardinality(candidates) -> candidates] :
          \A i, j \in 1..Cardinality(candidates) :
             i < j => Before(rows[i], rows[j])

\* The score of a file with n entries, in tenths: min(n / 5.0 + 1.0, 5.0).
RegexScore(n) == IF 2 * n + 10 < 50 THEN 2 * n + 10 ELSE 50

\* The collection of the results of one batch, from its k-th file on; n is
\* len(match_contexts) of _search_file_content, at most max_matches.
RECURSIVE CollectBatch(_, _, _, _, _, _)
CollectBatch(files, pattern, batch, k, limit, results) ==
    IF k > Len(batch) THEN results
    ELSE LET found == Len(RegexFindIter(pattern, files[batch[k]]))
             n == IF found > MaxMatches THEN MaxMatches ELSE found
         IN IF n = 0
            THEN CollectBatch(files, pattern, batch, k + 1, limit, results)
            ELSE LET added == Append(results,
                                 [filepath |-> batch[k], match_count |-> n,
                                  score |-> RegexScore(n)])
                 IN IF Len(added) >= limit THEN added
                    ELSE CollectBatch(files, pattern, batch, k + 1, limit,
                                      added)

\* The batch loop without the test that ends it at the limit.
RECURSIVE BatchLoopToTheEnd(_, _, _, _, _, _, _)
BatchLoopToTheEnd(files, pattern, rows, i, limit, batch_size, run) ==
    IF i > Len(rows) THEN run
    ELSE LET last == IF i + batch_size - 1 < Len(rows)
                     THEN i + batch_size - 1 ELSE Len(rows)
             batch == SubSeq(rows, i, last)
         IN BatchLoopToTheEnd(files, pattern, rows, i + batch_size, limit,
               batch_size,
               [results |-> CollectBatch(files, pattern, batch, 1, limit,
                                         run.results),
                scanned |-> run.scanned \cup {batch[k] : k \in 1..Len(batch)},
                batches |-> run.batches + 1])

\* The batch loop of search_regex from row i on (rows counted from 1).
\* scanned and batches record the files handed to _process_file_regex and
\* the batches started.
RECURSIVE BatchLoop(_, _, _, _, _, _, _)
BatchLoop(files, pattern, rows, i, limit, batch_size, run) ==
    IF i > Len(rows) \/ Len(run.results) >= limit THEN run
    ELSE LET last == IF i + batch_size - 1 < Len(rows)
                     THEN i + batch_size - 1 ELSE Len(rows)
             batch == SubSeq(rows, i, last)
         IN BatchLoop(files, pattern, rows, i + batch_size, limit, batch_size,
               [results |-> CollectBatch(files, pattern, batch, 1, limit,
                                         run.results),
                scanned |-> run.scanned \cup {batch[k] : k \in 1..Len(batch)},
                batches |-> run.batches + 1])

\* search_regex; it returns results[:limit].
SearchRegex(files, pattern, limit, max_parallel) ==
    IF ~Compiles(pattern)
    THEN [error |-> TRUE, results |-> <<>>, scanned |-> {}, batches |-> 0,
          rows |-> <<>>]
    ELSE LET rows == RegexRows(files, pattern)
             run == BatchLoop(files, pattern, rows, 1, limit, max_parallel,
                       [results |-> <<>>, scanned |-> {}, batches |-> 0])
         IN [error |-> FALSE,
             results |-> IF Len(run.results) > limit
                         THEN SubSeq(run.results, 1, limit) ELSE run.results,
             scanned |-> run.scanned, batches |-> run.batches, rows |-> rows]

SearchRegexCall ==
    /\ ToolIdle
    /\ \E files \in [RegexPaths -> DocsUpTo(MaxDocText)] :
          \E pattern \in RegexPatterns(MaxPattern) :
             \E limit \in 1..MaxLimit, max_parallel \in 1..MaxParallel :
                tool' = [op |-> "search_regex", files |-> files,
                         pattern |-> pattern, limit |-> limit,
                         max_parallel |-> max_parallel,
                         out |-> SearchRegex(files, pattern, limit,
                                             max_parallel)]
    /\ UNCHANGED <<storeVars, taskVars, vaultVars>>

\* The documents of the index that the compiled pattern matches.
RegexMatching(files, pattern) ==
    {p \in RegexPaths : Len(RegexFindIter(pattern, files[p])) > 0}

ReturnedPaths(results) == {results[k].filepath : k \in 1..Len(results)}

\* C18: a search that compiled its pattern and ended below the limit returns
\* the documents the pattern matches among all the indexed ones, as a scan
\* without the pre-filter would.
C18_PrefilterKeepsMatches ==
    (/\ tool.op = "search_regex"
     /\ ~tool.out.error
     /\ Len(tool.out.results) < tool.limit) =>
        ReturnedPaths(tool.out.results) = RegexMatching(tool.files, tool.pattern)

\* C19: search_regex returns at most limit results, and a file is handed to
\* the scan only if the batches before its own left the results below limit.
C19_LimitStopsBatches ==
    (tool.op = "search_regex" /\ ~tool.out.error) =>
        /\ Len(tool.out.results) <= tool.limit
        /\ \A k \in 1..Len(tool.out.rows) :
              tool.out.rows[k] \in tool.out.scanned =>
                 LET before == ((k - 1) \div tool.max_parallel)
                                  * tool.max_parallel
                 IN Cardinality({j \in 1..before :
                        tool.out.rows[j] \in
                           RegexMatching(tool.files, tool.pattern)})
                       < tool.limit

\* The limit is reached while a batch of candidates is still to come.
C19_Witness ==
    /\ tool.op = "search_regex"
    /\ ~tool.out.error
    /\ Len(tool.out.results) = tool.limit
    /\ \E k \in 1..Len(tool.out.rows) : tool.out.rows[k] \notin tool.out.scanned

\* _search_by_regex_memory; items is the order of the in-memory index, Loop
\* the loop over it from its k-th entry on.  results.sort(key=score,
\* reverse=True) orders by score descending and leaves the entries of one
\* score in the order they had: Sorted puts the first k entries in order.
SearchByRegexMemory(files, pattern, items, max_results) ==
    LET RECURSIVE Loop(_, _)
        Loop(k, results) ==
            IF k > Len(items) THEN results
            ELSE LET matches == RegexFindIter(pattern, files[items[k]])
                 IN IF matches = <<>> THEN Loop(k + 1, results)
                    ELSE LET added == Append(results,
                                         [path |-> items[k],
                                          match_count |-> Len(matches),
                                          score |-> RegexScore(Len(matches))])
                         IN IF Len(added) >= max_results THEN added
                            ELSE Loop(k + 1, added)
        RECURSIVE Sorted(_, _)
        Sorted(found, k) ==
            IF k = 0 THEN <<>>
            ELSE LET before == Sorted(found, k - 1)
                     n == Cardinality({i \in 1..Len(before) :
                                         before[i].score >= found[k].score})
                 IN SubSeq(before, 1, n) \o <<found[k]>>
                       \o SubSeq(before, n + 1, Len(before))
        sorted == Sorted(Loop(1, <<>>), Len(Loop(1, <<>>)))
    IN IF ~Compiles(pattern) THEN [error |-> TRUE, results |-> <<>>]
       ELSE [error |-> FALSE,
             results |-> IF Len(sorted) > max_results
                         THEN SubSeq(sorted, 1, max_results) ELSE sorted]

\* search_by_regex on an index that is up to date: the results of
\* search_regex with filepath renamed to path, or the in-memory search.
SearchByRegex(files, pattern, items, max_results, persistent) ==
    IF persistent
    THEN LET out == SearchRegex(files, pattern, max_results,
                                DefaultMaxParallel)
         IN [error |-> out.error,
             results |-> [k \in 1..Len(out.results) |->
                             [path |-> out.results[k].filepath,
                              match_count |-> out.results[k].match_count,
                              score |-> out.results[k].score]]]
    ELSE SearchByRegexMemory(files, pattern, items, max_results)

SearchByRegexCall ==
    /\ ToolIdle
    /\ \E files \in [RegexPaths -> DocsUpTo(MaxDocText)] :
          \E pattern \in RegexPatterns(MaxPattern) :
             \E max_results \in 1..MaxLimit, persistent \in BOOLEAN,
                items \in {<<"a.md", "b.md">>, <<"b.md", "a.md">>} :
                tool' = [op |-> "search_by_regex", files |-> files,
                         pattern |-> pattern, max_results |-> max_results,
                         persistent |-> persistent, items |-> items,
                         out |-> SearchByRegex(files, pattern, items,
                                               max_results, persistent)]
    /\ UNCHANGED <<storeVars, taskVars, vaultVars>>

\* C20: the results of search_by_regex are in the order of their scores,
\* highest first, each score being min(match_count / 5 + 1, 5).
C20_ScoreDescending ==
    (tool.op = "search_by_regex" /\ ~tool.out.error) =>
        /\ \A k \in 1..Len(tool.out.results) :
              tool.out.results[k].score
                 = RegexScore(tool.out.results[k].match_count)
        /\ \A k \in 1..(Len(tool.out.results) - 1) :
              tool.out.results[k].score >= tool.out.results[k + 1].score

\* ------------------------------------------------- validation of the tools
\* validate_search_query: "not query or not query.strip()", then the length.
ValidateSearchQuery(query) ==
    IF query = << >> \/ \A i \in 1..Len(query) : query[i] = " " THEN FALSE
    ELSE IF Len(query) > 500 THEN FALSE
    ELSE TRUE

\* validate_context_length
ValidateContextLength(length) ==
    IF length < 10 \/ length > 500 THEN FALSE ELSE TRUE

\* The context lengths the tools are called with.
ContextLengths == {9, 10, 100, 500, 501}

\* The search_notes tool up to its search: the two validations raise
\* ValueError; after them get_vault() and the search of the dialect, inside
\* "try ... except Exception", which turns the ValueError of
\* _parse_property_query into the envelope with "error".
SearchNotesValidation ==
    /\ ToolIdle
    /\ \E query \in {<< >>, <<" ">>, <<"a">>, [i \in 1..500 |-> "a"],
                     [i \in 1..501 |-> "a"], PropertyPrefix \o <<"n">>,
                     PropertyPrefix \o <<"n", ":", "5">>},
          context_length \in ContextLengths :
          LET valid == ValidateSearchQuery(query)
                          /\ ValidateContextLength(context_length)
              property == StartsWith(query, PropertyPrefix)
          IN tool' = [op |-> "search_notes_validation", query |-> query,
                      context_length |-> context_length,
                      vault_called |-> valid,
                      out |-> IF ~valid THEN "raised"
                              ELSE IF property /\ ParsePropertyQuery(query).error
                              THEN "error_envelope"
                              ELSE "envelope"]
    /\ UNCHANGED <<storeVars, taskVars, vaultVars>>

\* The search_by_property tool up to its search: the operator is tested
\* against valid_operators, nothing else is; then get_vault() and
\* _search_by_property.
SearchByPropertyValidation ==
    /\ ToolIdle
    /\ \E operator \in {"=", "equals", "!=", ">", "<", ">=", "<=", "contains",
                        "exists", "invalid_op"},
          context_length \in ContextLengths :
          LET valid == operator \in {"=", "equals", "!=", ">", "<", ">=", "<=",
                                     "contains", "exists"}
          IN tool' = [op |-> "search_by_property_validation",
                      operator |-> operator,
                      context_length |-> context_length,
                      vault_called |-> valid,
                      out |-> IF ~valid THEN "raised" ELSE "envelope"]
    /\ UNCHANGED <<storeVars, taskVars, vaultVars>>

\* The search_by_regex tool up to its search: re.compile(pattern), the
\* context length, the flags one by one (flag.lower() in flag_map), each
\* raising ValueError; then get_vault() and vault.search_by_regex.
SearchByRegexValidation ==
    /\ ToolIdle
    /\ \E pattern \in TextsUpTo(2, {"a", "*"}),
          flags \in TextsUpTo(2, {"i", "I", "m", "dotall", "x"}),
          context_length \in ContextLengths :
          LET lower(flag) == IF flag = "I" THEN "i" ELSE flag
              flag_map == {"ignorecase", "i", "multiline", "m", "dotall", "s"}
              valid == /\ Compiles(pattern)
                       /\ ValidateContextLength(context_length)
                       /\ \A k \in 1..Len(flags) : lower(flags[k]) \in flag_map
          IN tool' = [op |-> "search_by_regex_validation",
                      pattern |-> pattern, flags |-> flags,
                      context_length |-> context_length,
                      vault_called |-> valid,
                      out |-> IF ~valid THEN "raised" ELSE "envelope"]
    /\ UNCHANGED <<storeVars, taskVars, vaultVars>>

\* What C21 counts as a query error of a call.
QueryError ==
    \/ /\ tool.op = "search_notes_validation"
       /\ \/ tool.query = << >>
          \/ \A i \in 1..Len(tool.query) : tool.query[i] = " "
          \/ Len(tool.query) > 500
    \/ /\ tool.op = "search_by_property_validation"
       /\ tool.operator = "invalid_op"
    \/ /\ tool.op = "search_by_regex_validation"
       /\ \/ ~Compiles(tool.pattern)
          \/ \E k \in 1..Len(tool.flags) : tool.flags[k] = "x"
    \/ /\ tool.op \in {"search_notes_validation", "search_by_property_validation",
                       "search_by_regex_validation"}
       /\ (tool.context_length < 10 \/ tool.context_length > 500)

\* C21: a query error (invalid regex pattern, unknown regex flag, invalid
\* property operator, context length outside 10..500, empty or over-long
\* query) of search_notes, search_by_property or search_by_regex is raised
\* as a validation error, not returned as a result envelope, and is raised
\* before the vault is asked for any refresh or scan.
C21_QueryErrorsRaised ==
    QueryError => (tool.out = "raised" /\ ~tool.vault_called)

\* ------------------------------------------- claims on the refresh cycle
\* The store holds a snapshot of p with the mtime and the size p has on disk.
SnapshotMatches(p) ==
    /\ disk[p].exists
    /\ \E r \in RowsOf(db.file_index, p) :
          r.mtime = disk[p].mtime /\ r.size = ByteSize(disk[p].doc)

\* Caller c's walk deals with file p in this step.
WalkStep(c, p) ==
    cpc[c] = "walk" /\ p \in carg[c].todo /\ p \notin carg'[c].todo

\* C22: a refresh cycle re-ingests only walked files for which needs_update
\* is true: a walked file whose mtime and size on disk equal the stored ones
\* is never handed to index_file, and the step that deals with it leaves its
\* file_index, file_search and file_properties rows as they were; no step of
\* the walk touches the rows of a file the walk has found unchanged.  This
\* holds in a store that was closed and opened again as well.
C22_UnchangedFilesKept ==
    [][\A c \in Callers, p \in Paths :
          /\ (WalkStep(c, p) /\ SnapshotMatches(p)) =>
                /\ p \in carg'[c].unchanged
                /\ p \notin carg'[c].ingested
                /\ View(db', p) = View(db, p)
          /\ (WalkStep(c, p) /\ p \in carg'[c].ingested) => ~SnapshotMatches(p)
          /\ (cpc[c] = "walk" /\ p \in carg[c].unchanged) =>
                View(db', p) = View(db, p)]_vars

\* A search has opened a store that an earlier session had filled (the
\* store it opened held a document that meets its query): its walk has found
\* that file unchanged, its rows are there, and it has ingested another file.
C22_Witness ==
    \E c \in Callers :
        /\ carg[c].opened
        /\ carg[c].stale
        /\ carg[c].snap # {}
        /\ carg[c].snap \subseteq carg[c].unchanged
        /\ carg[c].ingested # {}
        /\ \A p \in carg[c].unchanged : View(db, p).file_index # {}

\* The vault with its searches and a clock that is looked at when 60 and
\* when 61 seconds have passed; nobody touches the files.
ClockNext ==
    \/ \E c \in Callers, op \in SearchOps, query \in Queries, opens \in BOOLEAN :
          SearchCall(c, op, query, opens)
    \/ \E c \in Callers : UpdateBegin(c)
    \/ \E c \in Callers, p \in Paths : RefreshFile(c, p)
    \/ \E c \in Callers : ClearOrphans(c)
    \/ \E c \in Callers, p \in Paths : MemoryFile(c, p)
    \/ \E c \in Callers : MemoryDone(c)
    \/ \E c \in Callers : SearchAnswer(c)
    \/ \E d \in {RefreshInterval, RefreshInterval + 1} : Tick(d)

ClockSpec == Init /\ [][ClockNext]_vars

\* Caller c makes its call in this step.
Calls(c) == cpc[c] \in {"idle", "done"} /\ cpc'[c] \notin {"idle", "done"}

\* C23: a search triggers a refresh if and only if the index has never been
\* refreshed or its timestamp is more than 60 seconds old, otherwise it goes
\* to its query; the timestamp changes only when a refresh cycle finishes,
\* to the time of that moment, which leaves the index fresh.
C23_RefreshTrigger ==
    [][/\ \A c \in Callers :
             Calls(c) =>
                /\ cpc'[c] \in {"update", "search"}
                /\ cpc'[c] = "update" <=>
                      (index_timestamp = NoTimestamp \/ now - index_timestamp > 60)
       /\ \A c \in Callers :
             (cpc[c] = "update" /\ cpc'[c] # "update") =>
                (index_lock = 0 /\ index_lock' = c)
       /\ \A c \in Callers :
             (carg'[c].cycle_done /\ ~carg[c].cycle_done) =>
                /\ index_lock = c /\ index_lock' = 0
                /\ index_timestamp' = now
                /\ cpc'[c] = "search"
       /\ index_timestamp' # index_timestamp =>
             \E c \in Callers : carg'[c].cycle_done /\ ~carg[c].cycle_done]_vars

\* A search made exactly 60 seconds after a refresh has finished has gone to
\* its query without a refresh.
C23_Witness ==
    \E c \in Callers :
        /\ cpc[c] = "search"
        /\ ~carg[c].stale
        /\ ~carg[c].cycle_done
        /\ index_timestamp # NoTimestamp
        /\ now - index_timestamp = 60

\* ------------------------------------------------ list-typed properties
\* json.dumps of a list of strings, the text index_file stores for it (with
\* property_type 'list').
JsonDumps(list) ==
    LET RECURSIVE Items(_)
        Items(l) ==
            IF l = << >> THEN << >>
            ELSE <<"\"">> \o Head(l) \o <<"\"">>
                    \o (IF Tail(l) = << >> THEN << >> ELSE <<",", " ">>)
                    \o Items(Tail(l))
    IN <<"[">> \o Items(list) \o <<"]">>

\* The WHERE clause of PersistentSearchIndex.search_by_property for the row
\* of a property: LIKE %value%, !=, LOWER(...) = LOWER(...) (the model's
\* letters are lower case) and the comparison of >, <, >=, <=.
PropertyWhere(row, property_name, operator, value) ==
    IF operator = "contains"
    THEN row.property_name = property_name /\ Contains(row.property_value, value)
    ELSE IF operator = "!="
    THEN row.property_name = property_name /\ row.property_value # value
    ELSE IF operator = "="
    THEN row.property_name = property_name /\ row.property_value = value
    ELSE ComparisonWhere(row, property_name, operator, value)

\* The test the manual scan of _search_by_property makes of a property whose
\* value is a list: membership, containment in an element, or the length
\* against float(value), False when float raises ValueError.
ManualListMatch(prop_value, operator, value) ==
    LET items == {prop_value[i] : i \in 1..Len(prop_value)}
        is_float == value # << >> /\ \A i \in 1..Len(value) :
                                        Ord(value[i]) \in Ord("0")..Ord("9")
    IN IF operator = "=" THEN \E item \in items : item = value
       ELSE IF operator = "!=" THEN ~(\E item \in items : item = value)
       ELSE IF operator = "contains" THEN \E item \in items : Contains(item, value)
       ELSE IF is_float
       THEN CompareNumbers(operator, Len(prop_value), CastAsReal(value))
       ELSE FALSE

\* _search_by_property over a note whose front matter holds the list under
\* "tags": from the persistent index that has ingested the note, and by the
\* manual scan of the notes.
ListPropertyCall ==
    /\ ToolIdle
    /\ \E list \in UNION {[1..k -> {<<"h">>, <<"n">>, <<"h", "n">>}] :
                              k \in 0..MaxListLen},
          operator \in {"=", "!=", "contains", ">", "<", ">=", "<="},
          value \in {<<"h">>, <<"n">>, <<"n", "h">>} \cup
                       {DecimalText(q) : q \in 0..(MaxListLen + 1)} :
          LET row == [filepath |-> "p1.md", property_name |-> "tags",
                      property_value |-> JsonDumps(list),
                      property_type |-> "list"]
          IN tool' = [op |-> "list_property", list |-> list,
                      operator |-> operator, value |-> value,
                      index |-> PropertyWhere(row, "tags", operator, value),
                      manual |-> ManualListMatch(list, operator, value)]
    /\ UNCHANGED <<storeVars, taskVars, vaultVars>>

\* What C24 says of a list, an operator and a value.
ListRule(list, operator, value) ==
    LET items == {list[i] : i \in 1..Len(list)}
    IN IF operator = "=" THEN value \in items
       ELSE IF operator = "!=" THEN value \notin items
       ELSE IF operator = "contains" THEN \E item \in items : Contains(item, value)
       ELSE CompareNumbers(operator, Len(list), CastAsReal(value))

\* C24: for a list-typed property the search compares the length of the
\* list under >, <, >=, <=, matches under contains iff some element contains
\* the value, and tests membership under = and !=, from the persistent index
\* and by the manual scan alike.
C24_ListSemantics ==
    (tool.op = "list_property"
        /\ (tool.operator \in {">", "<", ">=", "<="} =>
               \A i \in 1..Len(tool.value) :
                  Ord(tool.value[i]) \in Ord("0")..Ord("9"))) =>
        /\ tool.index = ListRule(tool.list, tool.operator, tool.value)
        /\ tool.manual = ListRule(tool.list, tool.operator, tool.value)

\* read_note's test of the size of a file, "stat.st_size > max_size", with
\* the ceiling of 10 MB scaled to the sizes of the model's documents.  The
\* walks of the refresh cycle open their files themselves and do not make it.
FileTooLarge(size) == size > SizeCeiling

\* C25: a file above the size ceiling is rejected by the refresh cycle: it
\* is recorded as failed, and neither the store nor the in-memory index
\* ever holds an entry of that size.
C25_OversizeRejected ==
    /\ \A r \in BagToSet(db.file_index) : ~FileTooLarge(r.size)
    /\ \A e \in search_index : ~FileTooLarge(e.size)
    /\ \A c \in Callers : \A p \in carg[c].walked \ carg[c].todo :
          (disk[p].exists /\ FileTooLarge(ByteSize(disk[p].doc))) =>
              p \in carg[c].failed

\* ---------------------------------------------- claims on the writer lock
\* Writer t is inside the critical section of a mutation: between the first
\* statement of index_file or remove_file and its commit, or inside
\* clear_orphaned_entries, awaiting the remove_file it has called.
InCriticalSection(t) ==
    \/ wpc[t] \in {"if_delete_search", "if_insert_search", "if_delete_props",
                   "if_insert_props", "if_commit", "rf_delete_search",
                   "rf_commit"}
    \/ wpc[t] = "rf_wait" /\ warg[t].nested

\* C26: under every interleaving of the writers at most one mutation
\* (index_file, remove_file, clear_orphaned_entries) is inside its critical
\* section, and it is the holder of the writer lock; the statements of a
\* mutation are run in that section only, so those of two mutations are
\* never interleaved.
C26_OneWriterInside ==
    /\ Cardinality({t \in Writers : InCriticalSection(t)}) <= 1
    /\ \A t \in Writers : InCriticalSection(t) => lock = t
    /\ lock # 0 => InCriticalSection(lock)

\* An index_file is between its statements while another caller waits for
\* the lock with its remove_file.
C26_Witness ==
    \E t, u \in Writers :
        /\ t # u
        /\ wpc[t] = "if_insert_search"
        /\ wpc[u] = "rf_wait" /\ ~warg[u].nested

\* ------------------------------------------------ claims on the orphan sweep
\* The vault under asyncio's scheduling: a coroutine that can run does run,
\* so the step a caller is ready for is taken in the end.  A caller that
\* awaits a lock is ready only when the lock is free.
FairSpec ==
    /\ Spec
    /\ \A c \in Callers :
          WF_vars(\/ UpdateBegin(c)
                  \/ \E p \in Paths : RefreshFile(c, p)
                  \/ ClearOrphans(c)
                  \/ \E p \in Paths : MemoryFile(c, p)
                  \/ MemoryDone(c)
                  \/ SearchAnswer(c))

\* C27: clear_orphaned_entries terminates and releases the writer lock also
\* when the store holds an entry of a file that is gone, so every refresh
\* cycle that has started its walk completes, and the writer lock, once
\* taken, is free again later.
C27_SweepTerminates ==
    /\ \A c \in Callers : (cpc[c] = "walk") ~> carg[c].cycle_done
    /\ (lock # 0) ~> (lock = 0)

\* C28: in every committed state of the store every file_properties row
\* belongs to a path that has a file_index row, so a path that was removed
\* and is ingested again without front matter shows no property of the
\* document that was removed.
C28_PropertiesHaveDocument ==
    /\ \A r \in committed.file_properties : r.filepath \in IndexedFiles(committed)
    /\ \A t \in Writers :
          (AtIndexCommit(t) /\ ~UpdatesProperties(warg[t].args.metadata)
              /\ RowsOf(warg[t].pre.file_index, warg[t].args.filepath) = {}) =>
              View(db, warg[t].args.filepath).file_properties = {}

\* -------------------------------------------- the query the tool builds
\* The query string search_by_property builds for _search_by_property, after
\* it has turned "equals" into "=": property:<name>:* for exists,
\* property:<name>:*<value>* for contains, the operator before the value for
\* >, <, >=, <= and !=, the bare value for "=".
BuildPropertyQuery(property_name, value, operator) ==
    LET head == PropertyPrefix \o property_name \o <<":">>
    IN IF operator = "exists" THEN head \o <<"*">>
       ELSE IF operator = "contains" THEN head \o <<"*">> \o value \o <<"*">>
       ELSE IF operator \in {">", "<", ">=", "<=", "!="}
       THEN head \o (IF Len(operator) = 2
                     THEN <<IF operator = "!=" THEN "!" ELSE
                            IF operator = ">=" THEN ">" ELSE "<", "=">>
                     ELSE <<operator>>) \o value
       ELSE head \o value

\* The search_by_property tool with a valid operator: the query it builds
\* and what _search_by_property parses out of it.
SearchByPropertyBuild ==
    /\ ToolIdle
    /\ \E property_name \in TextsUpTo(2, {"n", ":"}) \ {<< >>},
          operator \in {"=", "equals", "!=", ">", "<", ">=", "<=", "contains",
                        "exists"},
          value \in TextsUpTo(2, {"5", "*", ">", "<", "=", "!"}) \ {<< >>} :
          LET normal == IF operator = "equals" THEN "=" ELSE operator
              query == BuildPropertyQuery(property_name, value, normal)
          IN tool' = [op |-> "search_by_property_build",
                      property_name |-> property_name, operator |-> normal,
                      value |-> value, query |-> query,
                      out |-> ParsePropertyQuery(query)]
    /\ UNCHANGED <<storeVars, taskVars, vaultVars>>

\* C29: the query string the search_by_property tool builds from a name, an
\* operator and a value is parsed back by _parse_property_query to that name,
\* that operator and that value (no value for exists).
C29_QueryRoundTrip ==
    tool.op = "search_by_property_build" =>
        /\ ~tool.out.error
        /\ tool.out.name = tool.property_name
        /\ tool.out.operator = tool.operator
        /\ tool.operator # "exists" =>
              (tool.out.has_value /\ tool.out.value = tool.value)
        /\ tool.operator = "exists" => ~tool.out.has_value

\* ------------------------------------- content search, index and fallback
\* SQLite's "s LIKE pattern": "%" stands for any run of characters, "_" for
\* any one character, every other character for itself without regard to
\* ASCII case.
Like(s, pattern) ==
    LET RECURSIVE M(_, _)
        M(i, j) ==
            IF j > Len(pattern) THEN i > Len(s)
            ELSE IF pattern[j] = "%"
                 THEN \E k \in i..(Len(s) + 1) : M(k, j + 1)
                 ELSE /\ i <= Len(s)
                      /\ \/ pattern[j] = "_"
                         \/ LowerChar(pattern[j]) = LowerChar(s[i])
                      /\ M(i + 1, j + 1)
    IN M(1, 1)

\* The loop "match_pos = content_lower.find(query_lower, start_pos)" with
\* start_pos = match_pos + 1, and the score of that many matches in tenths:
\* min(len(matches) / 10.0 + 1.0, 5.0).
ScanMatches(content_lower, query_lower) ==
    LET matches == {i \in 0..(Len(content_lower) - Len(query_lower)) :
                       SubSeq(content_lower, i + 1, i + Len(query_lower))
                           = query_lower}
        n == Cardinality(matches)
    IN [match_count |-> n, score |-> IF n + 10 < 50 THEN n + 10 ELSE 50]

\* _search_with_persistent_index: the answers search_simple may give (the
\* rows with content_lower LIKE %query_lower%, cut to LIMIT max_results in
\* an order the statement does not fix), each scanned for the query; a row
\* without a match gives no result.
SearchWithPersistentIndex(files, query, max_results) ==
    LET query_lower == LowerText(query)
        rows == {p \in DOMAIN files :
                    Like(LowerText(files[p]),
                         <<"%">> \o query_lower \o <<"%">>)}
    IN {{[path |-> p,
          match_count |-> ScanMatches(LowerText(files[p]), query_lower).match_count,
          score |-> ScanMatches(LowerText(files[p]), query_lower).score] :
            p \in {r \in search_results :
                ScanMatches(LowerText(files[r]), query_lower).match_count > 0}} :
        search_results \in Truncate(rows, max_results)}

\* _search_with_memory_index: the entries with "query_lower in content",
\* scanned the same way, the loop left at max_results results and the list
\* cut to max_results.
SearchWithMemoryIndex(files, query, max_results) ==
    LET query_lower == LowerText(query)
        hits == {p \in DOMAIN files :
                    /\ Contains(LowerText(files[p]), query_lower)
                    /\ ScanMatches(LowerText(files[p]), query_lower).match_count > 0}
        kept == Truncate(hits, max_results)
    IN {{[path |-> p,
          match_count |-> ScanMatches(LowerText(files[p]), query_lower).match_count,
          score |-> ScanMatches(LowerText(files[p]), query_lower).score] :
            p \in results} : results \in kept}

\* One plain content search answered both ways over the same notes.
ContentSearchCall ==
    /\ ToolIdle
    /\ \E files \in [Paths -> TextsUpTo(MaxListLen, {"a", "_"})],
          query \in TextsUpTo(MaxListLen, {"a", "_"}),
          max_results \in 0..MaxLimit :
          \E persistent \in SearchWithPersistentIndex(files, query, max_results),
             memory \in SearchWithMemoryIndex(files, query, max_results) :
             tool' = [op |-> "content_search", files |-> files,
                      query |-> query, max_results |-> max_results,
                      matching |-> Cardinality({p \in Paths :
                          Contains(LowerText(files[p]), LowerText(query))}),
                      persistent |-> persistent, memory |-> memory]
    /\ UNCHANGED <<storeVars, taskVars, vaultVars>>

\* C30: over the same notes and for the same query, with max_results at
\* least the number of files that hold the query, the search through the
\* persistent index and the search through the in-memory index return the
\* same paths with the same match_count and score.
C30_SameAnswerBothIndexes ==
    (tool.op = "content_search" /\ tool.max_results >= tool.matching) =>
        tool.persistent = tool.memory

\* ------------------------------------------- the specification of the tools
ToolInit ==
    /\ tool = NoTool
    /\ db = EmptyDb
    /\ committed = EmptyDb
    /\ lock = 0
    /\ TasksAtRest
    /\ VaultAtRest

\* The caller has taken the result.
ToolReturn ==
    /\ ~ToolIdle
    /\ tool' = NoTool
    /\ UNCHANGED <<storeVars, taskVars, vaultVars>>

ToolNext ==
    \/ ToolReturn
    \/ SearchNotesTool
    \/ SearchByTagCall
    \/ SearchByPropertyCall
    \/ ParsePropertyQueryCall
    \/ LineOfMatchCall
    \/ SearchNotesValidation
    \/ SearchByPropertyValidation
    \/ SearchByRegexValidation
    \/ ListPropertyCall
    \/ SearchByPropertyBuild
    \/ ContentSearchCall

\* The search tools and the functions they are made of, one call at a time.
ToolSpec == ToolInit /\ [][ToolNext]_vars

RegexNext ==
    \/ ToolReturn
    \/ ProcessFileRegexCall
    \/ SearchRegexCall
    \/ SearchByRegexCall

\* Regex search, one call at a time.
RegexSpec == ToolInit /\ [][RegexNext]_vars

====
